---------------------------- MODULE Spec2Model ----------------------------
(***************************************************************************)
(* Element resolution ("healing") and drift detection of the UI automation *)
(* runner: packages/runner/src/healing/engine.ts and the DriftDetector of  *)
(* packages/runner/src/cli/index.ts.                                       *)
(*                                                                         *)
(* Numbers.  The TypeScript code computes with IEEE doubles.  The model    *)
(* computes the same expressions over exact rationals <<n, d>> (d > 0, in  *)
(* lowest terms).  The only irrational operation, Math.sqrt, is applied to *)
(* perfect squares only: on the square screens every bounding box of the   *)
(* healing model has its centre on one line of direction (3,4), so every   *)
(* centre distance is a multiple of 5 screen units; on the 1200 by 800     *)
(* screen the two boxes are (1/600, 1/800) of the screen apart.            *)
(*                                                                         *)
(* Strings.  Texts and captions are sequences of one-character strings so  *)
(* that toLowerCase, trim and the edit distance are computed, not assumed. *)
(* Ids and roles are only compared for equality and stay TLA+ strings.     *)
(***************************************************************************)
EXTENDS Integers, Sequences, FiniteSets, TLC

VARIABLES uiMap, hconfig, hcall, hresult,
          dconfig, dpassed, dcall, dresult,
          tcall, tresult,
          heap, DEFAULT_DRIFT_CONFIG, detectors, handed,
          pconfig, callCount, tokenUsage, pcall, accepted,
          suite, phase, stepIndex, passedSteps, failedSteps, entries, executed,
          summary, exitCode, shown,
          objects, created, ocall

hvars == <<uiMap, hconfig, hcall, hresult>>
dvars == <<dconfig, dpassed, dcall, dresult>>
tvars == <<tcall, tresult>>
ivars == <<heap, DEFAULT_DRIFT_CONFIG, detectors, handed>>
pvars == <<pconfig, callCount, tokenUsage, pcall, accepted>>
rvars ==
  <<suite, phase, stepIndex, passedSteps, failedSteps, entries, executed, summary,
    exitCode, shown>>
svars == <<objects, created, ocall>>
ovars == <<ivars, pvars, rvars, svars>>
vars == <<hvars, dvars, tvars, ovars>>

\* the components that take no part in a run of the healing engine, of the
\* single drift detector or of the text utilities
InitInstancesIdle ==
  /\ heap = <<>>
  /\ DEFAULT_DRIFT_CONFIG = <<>>
  /\ detectors = <<>>
  /\ handed = <<>>

InitPlannerIdle ==
  /\ pconfig = <<>>
  /\ callCount = 0
  /\ tokenUsage = 0
  /\ pcall = <<>>
  /\ accepted = 0

InitRunIdle ==
  /\ suite = <<>>
  /\ phase = "none"
  /\ stepIndex = 0
  /\ passedSteps = 0
  /\ failedSteps = 0
  /\ entries = <<>>
  /\ executed = <<>>
  /\ summary = <<>>
  /\ exitCode = "none"
  /\ shown = <<>>

InitObjectsIdle ==
  /\ objects = <<>>
  /\ created = <<>>
  /\ ocall = <<>>

InitOthersIdle ==
  InitInstancesIdle /\ InitPlannerIdle /\ InitRunIdle /\ InitObjectsIdle

(***************************************************************************)
(* Bounds                                                                  *)
(***************************************************************************)
\* longest text handed to textSimilarity on its own
MaxTextLen == 3

\* largest number of elements of a UIMap handed to the healing engine
MaxElements == 2
\* largest number of elements of a UIMap handed to the drift detector
MaxDriftElements == 2

(***************************************************************************)
(* Exact arithmetic                                                        *)
(***************************************************************************)
Abs(x) == IF x < 0 THEN -x ELSE x

Min2(a, b) == IF a <= b THEN a ELSE b

Max2(a, b) == IF a >= b THEN a ELSE b

RECURSIVE GCD(_, _)
GCD(a, b) == IF b = 0 THEN a ELSE GCD(b, a % b)

\* the rational n/d in lowest terms with a positive denominator
Rat(n, d) ==
  LET s == IF d < 0 THEN -1 ELSE 1
      g == GCD(Abs(n), Abs(d))
  IN  <<(s * n) \div g, (s * d) \div g>>

Zero == <<0, 1>>

One == <<1, 1>>

RatAdd(a, b) == Rat(a[1] * b[2] + b[1] * a[2], a[2] * b[2])

RatSub(a, b) == Rat(a[1] * b[2] - b[1] * a[2], a[2] * b[2])

RatMul(a, b) == Rat(a[1] * b[1], a[2] * b[2])

RatDiv(a, b) == Rat(a[1] * b[2], a[2] * b[1])

RatLT(a, b) == a[1] * b[2] < b[1] * a[2]

RatLE(a, b) == a[1] * b[2] <= b[1] * a[2]

RatMax(a, b) == IF RatLT(a, b) THEN b ELSE a

\* Math.sqrt on a perfect square, by bisection on [lo, hi]
RECURSIVE SqrtIn(_, _, _)
SqrtIn(n, lo, hi) ==
  IF lo >= hi THEN lo
  ELSE LET mid == (lo + hi + 1) \div 2
       IN  IF mid * mid <= n THEN SqrtIn(n, mid, hi) ELSE SqrtIn(n, lo, mid - 1)

\* Math.sqrt(a^2 + b^2); the root lies in 0 .. |a| + |b|.  The model has no value
\* for an irrational root: the CHOOSE below then has no witness and TLC stops.
Hypot(a, b) ==
  LET r == SqrtIn(a * a + b * b, 0, Abs(a) + Abs(b))
  IN  CHOOSE x \in {r} : x * x = a * a + b * b

\* Number.prototype.toFixed(2), as an integer number of hundredths
toFixed2(r) == (2 * 100 * r[1] + r[2]) \div (2 * r[2])

(***************************************************************************)
(* Strings                                                                 *)
(***************************************************************************)
\* String.prototype.toLowerCase on the characters of the model
LowerChar(c) ==
  CASE c = "A" -> "a"
    [] c = "B" -> "b"
    [] c = "C" -> "c"
    [] c = "D" -> "d"
    [] c = "F" -> "f"
    [] c = "I" -> "i"
    [] c = "L" -> "l"
    [] c = "O" -> "o"
    [] c = "S" -> "s"
    [] OTHER -> c

toLowerCase(s) == [i \in 1..Len(s) |-> LowerChar(s[i])]

RECURSIVE trimStart(_)
trimStart(s) ==
  IF s # <<>> /\ Head(s) = " " THEN trimStart(Tail(s)) ELSE s

RECURSIVE trimEnd(_)
trimEnd(s) ==
  IF s # <<>> /\ s[Len(s)] = " " THEN trimEnd(SubSeq(s, 1, Len(s) - 1)) ELSE s

trim(s) == trimEnd(trimStart(s))

\* String.prototype.includes
includes(s, t) ==
  \E i \in 0..(Len(s) - Len(t)) : SubSeq(s, i + 1, i + Len(t)) = t


(***************************************************************************)
(* Data model                                                              *)
(***************************************************************************)
\* z.array(z.string()).default([]) for each direction
NoNeighbors == [left |-> <<>>, right |-> <<>>, above |-> <<>>, below |-> <<>>]

\* a UIElement: the fields the healing engine and the drift detector read
UIElement(id, bbox, role, text, caption, neighbors) ==
  [id |-> id, bbox |-> bbox, role |-> role, text |-> text,
   caption |-> caption, neighbors |-> neighbors]

\* a UIMap: screen metadata and the detected elements, in order
UIMap(width, height, elements) ==
  [screen |-> [width |-> width, height |-> height], elements |-> elements]

\* an ElementMatcher: `has` holds the names of the optional fields supplied;
\* a field that is not supplied keeps a fixed filler value that is never read
ElementMatcher(has, text, caption, role, bbox, neighborTexts) ==
  [has |-> has,
   text |-> IF "text" \in has THEN text ELSE <<>>,
   caption |-> IF "caption" \in has THEN caption ELSE <<>>,
   role |-> IF "role" \in has THEN role ELSE "",
   bbox |-> IF "bbox" \in has THEN bbox ELSE <<0, 0, 0, 0>>,
   neighborTexts |-> IF "neighborTexts" \in has THEN neighborTexts ELSE <<>>]

\* an optional string argument that was not passed
Undefined == "undefined"

\* JavaScript truthiness of an optional string (an id, a role)
Truthy(s) == s # Undefined /\ s # ""

\* DEFAULT_HEALING_CONFIG.confidenceThreshold
DefaultConfidenceThreshold == <<7, 10>>

\* a lookup by prefix, (el) => el.id.startsWith(id), instead of by equality: among
\* the ids of the model only the empty string is a proper prefix of another id
findIndexById_startsWith(elements, id) ==
  IF \E i \in 1..Len(elements) : id = "" \/ elements[i].id = id
  THEN CHOOSE i \in 1..Len(elements) :
         /\ id = "" \/ elements[i].id = id
         /\ \A j \in 1..(i - 1) : ~(id = "" \/ elements[j].id = id)
  ELSE 0

\* Array.prototype.find((el) => el.id === id): the index of the first match, 0 if none
findIndexById(elements, id) ==
  IF \E i \in 1..Len(elements) : elements[i].id = id
  THEN CHOOSE i \in 1..Len(elements) :
         /\ elements[i].id = id
         /\ \A j \in 1..(i - 1) : elements[j].id # id
  ELSE 0

(***************************************************************************)
(* Scoring utilities                                                       *)
(***************************************************************************)
\* row i of the matrix from row i - 1; column c of a row is stored at index c + 1
\* the row computed from insertions and deletions only, without the diagonal
RECURSIVE LevRow_noSubstitution(_, _, _, _, _)
LevRow_noSubstitution(a, b, i, prev, row) ==
  LET j == Len(row)
  IN  IF j > Len(a) THEN row
      ELSE LevRow_noSubstitution(a, b, i, prev,
             Append(row,
               IF b[i] = a[j] THEN prev[j]
               ELSE Min2(row[j] + 1, prev[j + 1] + 1)))

RECURSIVE LevRow(_, _, _, _, _)
LevRow(a, b, i, prev, row) ==
  LET j == Len(row)
  IN  IF j > Len(a) THEN row
      ELSE LevRow(a, b, i, prev,
             Append(row,
               IF b[i] = a[j] THEN prev[j]
               ELSE Min2(prev[j] + 1, Min2(row[j] + 1, prev[j + 1] + 1))))

RECURSIVE LevRows(_, _, _, _)
LevRows(a, b, i, prev) ==
  IF i > Len(b) THEN prev
  ELSE LevRows(a, b, i + 1, LevRow(a, b, i, prev, <<i>>))

levenshteinDistance(a, b) ==
  LevRows(a, b, 1, [j \in 1..(Len(a) + 1) |-> j - 1])[Len(a) + 1]

\* the similarity measured against the first text's length
textSimilarity_byFirstLength(a, b) ==
  IF a = <<>> /\ b = <<>> THEN One
  ELSE IF a = <<>> \/ b = <<>> THEN Zero
  ELSE LET normalizedA == trim(toLowerCase(a))
           normalizedB == trim(toLowerCase(b))
           maxLen == Max2(Len(normalizedA), 1)
       IN  IF normalizedA = normalizedB THEN One
           ELSE RatMax(Zero, RatSub(One,
                  Rat(levenshteinDistance(normalizedA, normalizedB), maxLen)))

textSimilarity(a, b) ==
  IF a = <<>> /\ b = <<>> THEN One
  ELSE IF a = <<>> \/ b = <<>> THEN Zero
  ELSE LET normalizedA == trim(toLowerCase(a))
           normalizedB == trim(toLowerCase(b))
           maxLen == Max2(Len(normalizedA), Len(normalizedB))
       IN  IF normalizedA = normalizedB THEN One
           ELSE IF maxLen = 0 THEN One
           ELSE RatSub(One, Rat(levenshteinDistance(normalizedA, normalizedB), maxLen))

\* twice the centre of a bbox, to stay in the integers
Center2(bbox) == <<2 * bbox[1] + bbox[3], 2 * bbox[2] + bbox[4]>>

\* bboxProximity without the Math.max(0, ...) clamp
bboxProximity_unclamped(expected, actual, screenWidth, screenHeight) ==
  LET e == Center2(expected)
      a == Center2(actual)
      p == Abs(e[1] - a[1]) * screenHeight
      q == Abs(e[2] - a[2]) * screenWidth
      distance == Rat(Hypot(p, q), 2 * screenWidth * screenHeight)
  IN  RatSub(One, RatMul(<<2, 1>>, distance))

bboxProximity(expected, actual, screenWidth, screenHeight) ==
  LET e == Center2(expected)
      a == Center2(actual)
      \* dx = p / (2 W H), dy = q / (2 W H)
      p == Abs(e[1] - a[1]) * screenHeight
      q == Abs(e[2] - a[2]) * screenWidth
      distance == Rat(Hypot(p, q), 2 * screenWidth * screenHeight)
  IN  RatMax(Zero, RatSub(One, RatMul(<<2, 1>>, distance)))

\* [...left, ...right, ...above, ...below]
allNeighborIds(element) ==
  element.neighbors.left \o element.neighbors.right
    \o element.neighbors.above \o element.neighbors.below

\* ids.map(find).filter(el !== undefined)
RECURSIVE resolveIds(_, _)
resolveIds(ids, elements) ==
  IF ids = <<>> THEN <<>>
  ELSE LET k == findIndexById(elements, Head(ids))
       IN  (IF k = 0 THEN <<>> ELSE <<elements[k]>>) \o resolveIds(Tail(ids), elements)

\* the neighbour test with >= in place of >
neighborMatches_orEqual(neighborText, expectedText) ==
  RatLE(<<7, 10>>, textSimilarity(neighborText, expectedText))

\* textSimilarity(neighbor.text, expectedText) > 0.7
neighborMatches(neighborText, expectedText) ==
  RatLT(<<7, 10>>, textSimilarity(neighborText, expectedText))

hasMatchingNeighbors(element, uiMap_, expectedNeighborTexts) ==
  IF expectedNeighborTexts = <<>> THEN Zero
  ELSE LET neighborElements == resolveIds(allNeighborIds(element), uiMap_.elements)
           matched == {i \in 1..Len(expectedNeighborTexts) :
                         \E n \in 1..Len(neighborElements) :
                           neighborMatches(neighborElements[n].text,
                                           expectedNeighborTexts[i])}
       IN  Rat(Cardinality(matched), Len(expectedNeighborTexts))

(***************************************************************************)
(* HealingEngine                                                           *)
(***************************************************************************)
\* a reason string: <<prefix, hundredths>> for `${prefix}: ${score.toFixed(2)}`,
\* <<name>> for a plain name
Reason(prefix, score) == <<prefix, toFixed2(score)>>

\* the fields of the matcher that scoreElement's `if`s let through
usesText(matcher) == "text" \in matcher.has /\ matcher.text # <<>>

usesCaption(matcher) == "caption" \in matcher.has /\ matcher.caption # <<>>

\* the role test never taken
usesRole_never(matcher) == FALSE

usesRole(matcher) == "role" \in matcher.has /\ Truthy(matcher.role)

usesBbox(matcher) == "bbox" \in matcher.has

usesNeighbors(matcher) ==
  "neighborTexts" \in matcher.has /\ Len(matcher.neighborTexts) > 0

\* the tail of scoreElement: the weighted sum over the fields let through, its
\* normalisation, and the reasons
weighScores(matcher, textScore, captionScore, roleScore, bboxScore, neighborScore) ==
  LET part(used, score, weight) == IF used THEN RatMul(score, weight) ELSE Zero
      wght(used, weight) == IF used THEN weight ELSE Zero
      totalScore ==
        RatAdd(RatAdd(RatAdd(RatAdd(
          part(usesText(matcher), textScore, <<35, 100>>),
          part(usesCaption(matcher), captionScore, <<20, 100>>)),
          part(usesRole(matcher), roleScore, <<20, 100>>)),
          part(usesBbox(matcher), bboxScore, <<15, 100>>)),
          part(usesNeighbors(matcher), neighborScore, <<10, 100>>))
      weightSum ==
        RatAdd(RatAdd(RatAdd(RatAdd(
          wght(usesText(matcher), <<35, 100>>),
          wght(usesCaption(matcher), <<20, 100>>)),
          wght(usesRole(matcher), <<20, 100>>)),
          wght(usesBbox(matcher), <<15, 100>>)),
          wght(usesNeighbors(matcher), <<10, 100>>))
      reasons ==
        (IF usesText(matcher) /\ RatLT(<<1, 2>>, textScore)
           THEN <<Reason("text_similarity", textScore)>> ELSE <<>>)
        \o (IF usesCaption(matcher) /\ RatLT(<<1, 2>>, captionScore)
           THEN <<Reason("caption_similarity", captionScore)>> ELSE <<>>)
        \o (IF usesRole(matcher) /\ RatLT(Zero, roleScore)
           THEN <<<<"role_match">>>> ELSE <<>>)
        \o (IF usesBbox(matcher) /\ RatLT(<<1, 2>>, bboxScore)
           THEN <<Reason("bbox_proximity", bboxScore)>> ELSE <<>>)
        \o (IF usesNeighbors(matcher) /\ RatLT(Zero, neighborScore)
           THEN <<Reason("neighbor_anchor", neighborScore)>> ELSE <<>>)
  IN  [score |-> IF RatLT(Zero, weightSum) THEN RatDiv(totalScore, weightSum) ELSE Zero,
       reasons |-> reasons]

\* the five signals of scoreElement; a signal whose field is not let through is
\* not computed by the code and is not read by weighScores
scoreElement(element, matcher, uiMap_) ==
  weighScores(matcher,
              textSimilarity(element.text, matcher.text),
              textSimilarity(element.caption, matcher.caption),
              IF element.role = matcher.role THEN One ELSE Zero,
              bboxProximity(matcher.bbox, element.bbox,
                            uiMap_.screen.width, uiMap_.screen.height),
              hasMatchingNeighbors(element, uiMap_, matcher.neighborTexts))

\* the priority with the bbox test ahead of the role test
getHealingMethod_bboxFirst(reasons) ==
  IF \E i \in 1..Len(reasons) : reasons[i][1] = "text_similarity"
    THEN "text_similarity"
  ELSE IF \E i \in 1..Len(reasons) : reasons[i][1] = "bbox_proximity"
    THEN "bbox_proximity"
  ELSE IF \E i \in 1..Len(reasons) : reasons[i] = <<"role_match">>
    THEN "role_match"
  ELSE IF \E i \in 1..Len(reasons) : reasons[i][1] = "neighbor_anchor"
    THEN "neighbor_anchor"
  ELSE "text_similarity"

getHealingMethod(reasons) ==
  IF \E i \in 1..Len(reasons) : reasons[i][1] = "text_similarity"
    THEN "text_similarity"
  ELSE IF \E i \in 1..Len(reasons) : reasons[i] = <<"role_match">>
    THEN "role_match"
  ELSE IF \E i \in 1..Len(reasons) : reasons[i][1] = "bbox_proximity"
    THEN "bbox_proximity"
  ELSE IF \E i \in 1..Len(reasons) : reasons[i][1] = "neighbor_anchor"
    THEN "neighbor_anchor"
  ELSE "text_similarity"

\* the push guarded by score >= 0
pushIfPositive_orZero(element, scored) ==
  IF RatLE(Zero, scored.score)
  THEN <<[element |-> element, score |-> scored.score, reasons |-> scored.reasons]>>
  ELSE <<>>

\* `if (score > 0) candidates.push({ element, score, reasons })`
pushIfPositive(element, scored) ==
  IF RatLT(Zero, scored.score)
  THEN <<[element |-> element, score |-> scored.score, reasons |-> scored.reasons]>>
  ELSE <<>>

\* the loop of findElement: the elements that score above 0, in map order
RECURSIVE scoredCandidates(_, _, _)
scoredCandidates(matcher, uiMap_, i) ==
  IF i > Len(uiMap_.elements) THEN <<>>
  ELSE pushIfPositive(uiMap_.elements[i],
                      scoreElement(uiMap_.elements[i], matcher, uiMap_))
       \o scoredCandidates(matcher, uiMap_, i + 1)

\* an unstable sort: c is put in front of the candidates of equal score
insertByScore_beforeEquals(sorted, c) ==
  LET k == Cardinality({i \in 1..Len(sorted) : RatLT(c.score, sorted[i].score)})
  IN  SubSeq(sorted, 1, k) \o <<c>> \o SubSeq(sorted, k + 1, Len(sorted))

\* where a stable descending sort puts c among the already sorted ones
insertByScore(sorted, c) ==
  LET k == Cardinality({i \in 1..Len(sorted) : RatLE(c.score, sorted[i].score)})
  IN  SubSeq(sorted, 1, k) \o <<c>> \o SubSeq(sorted, k + 1, Len(sorted))

\* candidates.sort((a, b) => b.score - a.score): Array.prototype.sort is stable
RECURSIVE sortByScore(_, _)
sortByScore(sorted, rest) ==
  IF rest = <<>> THEN sorted
  ELSE sortByScore(insertByScore(sorted, Head(rest)), Tail(rest))

\* the candidates of the event without the slice
eventCandidates_all(candidates) ==
  [i \in 1..Len(candidates) |->
     [id |-> candidates[i].element.id, score |-> candidates[i].score,
      reason |-> candidates[i].reasons]]

\* candidates.slice(0, 5).map(...)
eventCandidates(candidates) ==
  [i \in 1..Min2(5, Len(candidates)) |->
     [id |-> candidates[i].element.id, score |-> candidates[i].score,
      reason |-> candidates[i].reasons]]

\* the event emitted for every accepted match with an original target, also when
\* the accepted element is the original target
healingEvent_anyTarget(bestMatch, candidates, originalTarget) ==
  IF Truthy(originalTarget)
  THEN <<[originalTarget |-> originalTarget,
          healedTarget |-> bestMatch.element.id,
          method |-> getHealingMethod(bestMatch.reasons),
          confidence |-> bestMatch.score,
          candidates |-> eventCandidates(candidates)]>>
  ELSE <<>>

\* the HealingEvent of an accepted best match, if any
healingEvent(bestMatch, candidates, originalTarget) ==
  IF Truthy(originalTarget) /\ originalTarget # bestMatch.element.id
  THEN <<[originalTarget |-> originalTarget,
          healedTarget |-> bestMatch.element.id,
          method |-> getHealingMethod(bestMatch.reasons),
          confidence |-> bestMatch.score,
          candidates |-> eventCandidates(candidates)]>>
  ELSE <<>>

\* the threshold test with > in place of >=
acceptBest_strict(config, candidates, originalTarget) ==
  IF candidates # <<>> /\ RatLT(config.confidenceThreshold, candidates[1].score)
  THEN [success |-> TRUE, element |-> <<candidates[1].element>>,
        candidates |-> candidates,
        event |-> healingEvent(candidates[1], candidates, originalTarget)]
  ELSE [success |-> FALSE, element |-> <<>>, candidates |-> candidates,
        event |-> <<>>]

\* findElement after the sort: the threshold test and the result
acceptBest(config, candidates, originalTarget) ==
  IF candidates # <<>> /\ RatLE(config.confidenceThreshold, candidates[1].score)
  THEN [success |-> TRUE, element |-> <<candidates[1].element>>,
        candidates |-> candidates,
        event |-> healingEvent(candidates[1], candidates, originalTarget)]
  ELSE [success |-> FALSE, element |-> <<>>, candidates |-> candidates,
        event |-> <<>>]

\* optional values are sequences of length 0 (undefined) or 1
findElement(config, matcher, uiMap_, originalTarget) ==
  acceptBest(config, sortByScore(<<>>, scoredCandidates(matcher, uiMap_, 1)),
             originalTarget)

\* the exact-id branch reporting the configured threshold as its score
exactMatchResult_thresholdScore(exactMatch) ==
  [success |-> TRUE, element |-> <<exactMatch>>,
   candidates |-> <<[element |-> exactMatch, score |-> DefaultConfidenceThreshold,
                     reasons |-> <<<<"exact_id_match">>>>]>>,
   event |-> <<>>]

\* the exact-id branch of resolveElement
exactMatchResult(exactMatch) ==
  [success |-> TRUE, element |-> <<exactMatch>>,
   candidates |-> <<[element |-> exactMatch, score |-> One,
                     reasons |-> <<<<"exact_id_match">>>>]>>,
   event |-> <<>>]

\* resolveElement trying the signature before the id
resolveElement_signatureFirst(config, targetId, uiMap_, previousSignature) ==
  IF previousSignature # <<>>
  THEN findElement(config, previousSignature[1], uiMap_, targetId)
  ELSE IF findIndexById(uiMap_.elements, targetId) # 0
  THEN exactMatchResult(uiMap_.elements[findIndexById(uiMap_.elements, targetId)])
  ELSE [success |-> FALSE, element |-> <<>>, candidates |-> <<>>, event |-> <<>>]

resolveElement(config, targetId, uiMap_, previousSignature) ==
  IF findIndexById(uiMap_.elements, targetId) # 0
  THEN exactMatchResult(uiMap_.elements[findIndexById(uiMap_.elements, targetId)])
  ELSE IF previousSignature # <<>>
  THEN findElement(config, previousSignature[1], uiMap_, targetId)
  ELSE [success |-> FALSE, element |-> <<>>, candidates |-> <<>>, event |-> <<>>]

\* the texts of the resolved neighbours, empty ones kept
RECURSIVE neighborTextsOf_keepEmpty(_, _)
neighborTextsOf_keepEmpty(ids, elements) ==
  IF ids = <<>> THEN <<>>
  ELSE LET k == findIndexById(elements, Head(ids))
       IN  (IF k # 0 THEN <<elements[k].text>> ELSE <<>>)
           \o neighborTextsOf_keepEmpty(Tail(ids), elements)

\* texts of the resolved neighbours with a non-empty text, in pooled order
RECURSIVE neighborTextsOf(_, _)
neighborTextsOf(ids, elements) ==
  IF ids = <<>> THEN <<>>
  ELSE LET k == findIndexById(elements, Head(ids))
       IN  (IF k # 0 /\ Len(elements[k].text) > 0 THEN <<elements[k].text>> ELSE <<>>)
           \o neighborTextsOf(Tail(ids), elements)

createSignature(element, uiMap_) ==
  LET all == neighborTextsOf(allNeighborIds(element), uiMap_.elements)
  IN  ElementMatcher({"text", "caption", "role", "bbox", "neighborTexts"},
                     element.text, element.caption, element.role, element.bbox,
                     SubSeq(all, 1, Min2(4, Len(all))))

(***************************************************************************)
(* Inputs of the healing engine                                            *)
(***************************************************************************)
\* ids the perception step assigns, by position; "E9" is never assigned
IdOf(i) == <<"E1", "E2", "E3", "E4", "E5">>[i]

MissingId == "E9"

Abc == <<"a", "b", "c">>

Abd == <<"a", "b", "d">>

AbcUpper == <<"A", "B", "C">>

Cap == <<"c">>

\* bounding boxes whose centres (1,1), (4,5), (25,33) lie on one line of direction (3,4)
BoxA == <<0, 0, 2, 2>>

BoxB == <<3, 4, 2, 2>>

BoxC == <<24, 32, 2, 2>>

\* the elements the perception step may report at one position
ElementsAt(i) ==
  { UIElement(IdOf(i), BoxA, "button", Abc, <<>>, NoNeighbors),
    UIElement(IdOf(i), BoxB, "button", Abd, Cap,
              [NoNeighbors EXCEPT !.left = <<"E1">>, !.below = <<MissingId>>]),
    UIElement(IdOf(i), BoxC, "link", <<>>, Cap,
              [NoNeighbors EXCEPT !.right = <<"E2">>]),
    UIElement(IdOf(i), BoxA, "link", AbcUpper, <<>>, NoNeighbors),
    UIElement(IdOf(i), BoxB, "button", Abc, Cap,
              [NoNeighbors EXCEPT !.above = <<"E1", "E2">>]) }

\* the element lists of length n
RECURSIVE ElementLists(_)
ElementLists(n) ==
  IF n = 0 THEN {<<>>}
  ELSE {Append(l, e) : l \in ElementLists(n - 1), e \in ElementsAt(n)}

\* ids of a larger screen, by position
WideIds ==
  <<"E1", "E2", "E3", "E4", "E5", "E6", "E7", "E8", "E9", "E10", "E11", "E12",
    "E13", "E14">>

\* a crowded screen: six elements near the stored signatures' bbox; the first
\* has eight neighbour ids, one of them twice over, one dangling, one of an
\* element without text
CrowdedElements ==
  << UIElement("E1", BoxA, "button", Abc, <<>>,
               [left |-> <<"E2", "E3">>, right |-> <<"E2", "E7">>,
                above |-> <<"E4", "E5">>, below |-> <<"E6", "E2">>]),
     UIElement("E2", BoxB, "button", Abd, Cap, NoNeighbors),
     UIElement("E3", BoxA, "link", AbcUpper, <<>>, NoNeighbors),
     UIElement("E4", BoxB, "link", <<>>, Cap, NoNeighbors),
     UIElement("E5", BoxA, "button", Abd, <<>>, NoNeighbors),
     UIElement("E6", BoxB, "button", Abc, <<>>, NoNeighbors) >>

CrowdedMap == UIMap(40, 40, CrowdedElements)

\* a renamed button: the signature kept of "Sign In" and the screen that now
\* shows "Log In" two pixels to the right and one below
SignIn == <<"S", "i", "g", "n", " ", "I", "n">>

LogIn == <<"L", "o", "g", " ", "I", "n">>

SignInBox == <<100, 200, 80, 30>>

LogInBox == <<102, 201, 80, 30>>

SignInSignature == ElementMatcher({"text", "role", "bbox"}, SignIn, <<>>, "button",
                                  SignInBox, <<>>)

LogInButton == UIElement("E009", LogInBox, "button", LogIn, <<>>, NoNeighbors)

\* what else the screen may show beside the button: a link that kept the old
\* text at the old place, or an icon without text
BesideLogIn ==
  { UIElement("E010", SignInBox, "link", SignIn, <<>>, NoNeighbors),
    UIElement("E010", LogInBox, "icon", <<>>, <<>>, NoNeighbors) }

\* the screens with the renamed button, 1200 by 800 pixels: the centres of the
\* two boxes are then (1/600, 1/800) of the screen apart, a distance of 1/480
LogInMaps ==
  {UIMap(1200, 800, <<LogInButton>>)}
    \cup {UIMap(1200, 800, <<LogInButton, e>>) : e \in BesideLogIn}
    \cup {UIMap(1200, 800, <<e, LogInButton>>) : e \in BesideLogIn}

\* two texts of ten characters that differ in three: similarity exactly 0.7
TenAs == <<"a", "a", "a", "a", "a", "a", "a", "a", "a", "a">>

SevenAsThreeBs == <<"a", "a", "a", "a", "a", "a", "a", "b", "b", "b">>

\* a screen with a long label to the right of a button
LongTextMap ==
  UIMap(40, 40,
        << UIElement("E1", BoxA, "button", Abc, <<>>,
                     [NoNeighbors EXCEPT !.right = <<"E2">>, !.below = <<MissingId>>]),
           UIElement("E2", BoxB, "text", TenAs, <<>>, NoNeighbors) >>)

\* the UIMaps the engine is given: a square screen of 40 pixels, or a screen
\* with the renamed button
UIMaps ==
  {UIMap(40, 40, l) : l \in UNION {ElementLists(n) : n \in 0..MaxElements}}
    \cup LogInMaps
    \cup {CrowdedMap, LongTextMap}

\* the expected neighbour texts hasMatchingNeighbors is called with
ExpectedNeighborTextLists ==
  { <<>>, <<Abc>>, <<Abc, Abd>>, <<Abd, Abd, AbcUpper>>, <<SevenAsThreeBs, TenAs>>,
    << <<>> >> }

\* signatures kept from earlier screens: every combination of supplied fields
\* and signatures of an element without text: empty text, caption, neighborTexts
StoredMatchers ==
  { ElementMatcher(has, Abc, Cap, "button", BoxA, <<Abc>>) :
      has \in SUBSET {"text", "caption", "role", "bbox", "neighborTexts"} }
  \cup
  { ElementMatcher(has, <<>>, <<>>, "button", BoxA, <<>>) :
      has \in { {"text"}, {"text", "role"},
                {"text", "caption", "role", "bbox", "neighborTexts"} } }

\* the signatures a caller can pass for uiMap_: stored ones and fresh ones
Matchers(uiMap_) ==
  (IF uiMap_ \in LogInMaps THEN {SignInSignature} ELSE StoredMatchers)
    \cup {createSignature(uiMap_.elements[i], uiMap_) : i \in 1..Len(uiMap_.elements)}

\* ids a caller asks for: assigned ones, one never assigned, the empty string
TargetIds == {IdOf(i) : i \in 1..MaxElements} \cup {MissingId, ""}

\* original targets a caller of findElement passes, or none
OriginalTargets == {Undefined, "", "E1", MissingId}

Thresholds == {Zero, DefaultConfidenceThreshold, One}

\* { ...DEFAULT_HEALING_CONFIG, ...config }
HealingConfig(confidenceThreshold) ==
  [enabled |-> TRUE, confidenceThreshold |-> confidenceThreshold,
   maxAttempts |-> 3, allowLlmFallback |-> TRUE]

NoCall == [op |-> "none", targetId |-> Undefined, signature |-> <<>>]

NoResult == <<>>

(***************************************************************************)
(* Inputs of the text utilities called on their own                        *)
(***************************************************************************)
\* the characters of the texts: two letters, a capital, a blank
TextChars == {"a", "b", "A", " "}

\* the texts of length n
RECURSIVE TextsOfLen(_)
TextsOfLen(n) ==
  IF n = 0 THEN {<<>>}
  ELSE {Append(s, c) : s \in TextsOfLen(n - 1), c \in TextChars}

\* the two button texts of the renamed-button scenario, as shown and normalized
ScenarioTexts == {SignIn, LogIn, toLowerCase(SignIn), toLowerCase(LogIn)}

Texts == UNION {TextsOfLen(n) : n \in 0..MaxTextLen} \cup ScenarioTexts

NoTextCall == [op |-> "none", a |-> <<>>, b |-> <<>>]

InitTextIdle ==
  /\ tcall = NoTextCall
  /\ tresult = NoResult

(***************************************************************************)
(* The healing engine as a state machine: one engine, one current UIMap;   *)
(* hcall records the last call and its arguments, hresult what it returned *)
(***************************************************************************)
InitDriftIdle ==
  /\ dconfig = <<>>
  /\ dpassed = <<>>
  /\ dcall = <<>>
  /\ dresult = NoResult

Init ==
  /\ uiMap \in UIMaps
  /\ \E t \in Thresholds : hconfig = HealingConfig(t)
  /\ hcall = NoCall
  /\ hresult = NoResult
  /\ InitDriftIdle
  /\ InitTextIdle
  /\ InitOthersIdle

\* the engine is synchronous: a call is made when the previous result was taken
ResolveElement ==
  /\ hcall = NoCall
  /\ \E targetId \in TargetIds :
       \E sig \in {<<>>} \cup {<<m>> : m \in Matchers(uiMap)} :
         /\ hcall' = [op |-> "resolveElement", targetId |-> targetId, signature |-> sig]
         /\ hresult' = resolveElement(hconfig, targetId, uiMap, sig)
  /\ UNCHANGED <<uiMap, hconfig, dvars, tvars, ovars>>

FindElement ==
  /\ hcall = NoCall
  /\ \E matcher \in Matchers(uiMap) :
       \E originalTarget \in OriginalTargets :
         /\ hcall' = [op |-> "findElement", targetId |-> originalTarget,
                      signature |-> <<matcher>>]
         /\ hresult' = findElement(hconfig, matcher, uiMap, originalTarget)
  /\ UNCHANGED <<uiMap, hconfig, dvars, tvars, ovars>>

CreateSignature ==
  /\ hcall = NoCall
  /\ \E i \in 1..Len(uiMap.elements) :
       /\ hcall' = [op |-> "createSignature", targetId |-> uiMap.elements[i].id,
                    signature |-> <<>>]
       /\ hresult' = createSignature(uiMap.elements[i], uiMap)
  /\ UNCHANGED <<uiMap, hconfig, dvars, tvars, ovars>>

\* the neighbour score on its own, as scoreElement calls it
HasMatchingNeighbors ==
  /\ hcall = NoCall
  /\ \E i \in 1..Len(uiMap.elements) :
       \E expected \in ExpectedNeighborTextLists :
         /\ hcall' = [op |-> "hasMatchingNeighbors", targetId |-> uiMap.elements[i].id,
                      signature |-> <<>>, expectedNeighborTexts |-> expected]
         /\ hresult' = hasMatchingNeighbors(uiMap.elements[i], uiMap, expected)
  /\ UNCHANGED <<uiMap, hconfig, dvars, tvars, ovars>>

\* the caller takes the result; the engine keeps nothing of the call
TakeResult ==
  /\ hcall # NoCall
  /\ hcall' = NoCall
  /\ hresult' = NoResult
  /\ UNCHANGED <<uiMap, hconfig, dvars, tvars, ovars>>

Next ==
  ResolveElement \/ FindElement \/ CreateSignature \/ HasMatchingNeighbors \/ TakeResult

Spec == Init /\ [][Next]_vars

(***************************************************************************)
(* DriftDetector                                                           *)
(***************************************************************************)
\* a DriftAlert: severity, type and affectedElements.  The timestamp, the
\* description text and the raw expected / actual values attached for
\* inspection are not modelled; nothing in the detector reads them.
DriftAlert(severity, type, affectedElements) ==
  [severity |-> severity, type |-> type, affectedElements |-> affectedElements]

\* { ...DEFAULT_DRIFT_CONFIG, ...config }
DriftDetectorConfig(enabled, elementCountThreshold, layoutShiftThreshold, anchorElements, anchorTexts) ==
  [enabled |-> enabled, elementCountThreshold |-> elementCountThreshold,
   layoutShiftThreshold |-> layoutShiftThreshold,
   anchorElements |-> anchorElements, anchorTexts |-> anchorTexts]

\* DEFAULT_DRIFT_CONFIG.elementCountThreshold
DefaultElementCountThreshold == <<3, 10>>

\* the shift test with >= in place of >
shiftExceeds_orEqual(expectedBbox, actualBbox, limit) ==
  \/ limit <= 0
  \/ (actualBbox[1] - expectedBbox[1]) * (actualBbox[1] - expectedBbox[1])
       + (actualBbox[2] - expectedBbox[2]) * (actualBbox[2] - expectedBbox[2])
     >= limit * limit

\* Math.sqrt(Math.pow(ax - ex, 2) + Math.pow(ay - ey, 2)) > limit, for an integer
\* limit, decided on the squares
shiftExceeds(expectedBbox, actualBbox, limit) ==
  \/ limit < 0
  \/ (actualBbox[1] - expectedBbox[1]) * (actualBbox[1] - expectedBbox[1])
       + (actualBbox[2] - expectedBbox[2]) * (actualBbox[2] - expectedBbox[2])
     > limit * limit

\* the anchor text search without the case folding
findIndexByAnchorText_caseSensitive(elements, anchorText) ==
  IF \E i \in 1..Len(elements) : includes(elements[i].text, anchorText)
  THEN CHOOSE i \in 1..Len(elements) :
         /\ includes(elements[i].text, anchorText)
         /\ \A j \in 1..(i - 1) : ~includes(elements[j].text, anchorText)
  ELSE 0

\* the index of the first element whose lower-cased text includes the lower-cased
\* anchor text, 0 if none
findIndexByAnchorText(elements, anchorText) ==
  IF \E i \in 1..Len(elements) :
       includes(toLowerCase(elements[i].text), toLowerCase(anchorText))
  THEN CHOOSE i \in 1..Len(elements) :
         /\ includes(toLowerCase(elements[i].text), toLowerCase(anchorText))
         /\ \A j \in 1..(i - 1) :
              ~includes(toLowerCase(elements[j].text), toLowerCase(anchorText))
  ELSE 0

\* the search returning the last element with this text and role
findIndexByTextAndRole_last(elements, text, role) ==
  IF \E i \in 1..Len(elements) : elements[i].text = text /\ elements[i].role = role
  THEN CHOOSE i \in 1..Len(elements) :
         /\ elements[i].text = text /\ elements[i].role = role
         /\ \A j \in (i + 1)..Len(elements) :
              ~(elements[j].text = text /\ elements[j].role = role)
  ELSE 0

\* the index of the first element with this text and role, 0 if none
findIndexByTextAndRole(elements, text, role) ==
  IF \E i \in 1..Len(elements) : elements[i].text = text /\ elements[i].role = role
  THEN CHOOSE i \in 1..Len(elements) :
         /\ elements[i].text = text /\ elements[i].role = role
         /\ \A j \in 1..(i - 1) : ~(elements[j].text = text /\ elements[j].role = role)
  ELSE 0

\* the alerts pushed by the passes i, i + 1, ... of a loop, in order; pushed[i]
\* is what pass i pushes
RECURSIVE pushAll(_, _)
pushAll(pushed, i) ==
  IF i > Len(pushed) THEN <<>> ELSE pushed[i] \o pushAll(pushed, i + 1)

\* Math.abs(actualCount - expectedCount) / expectedCount, for expectedCount > 0
changeRatio(expectedCount, actualCount) ==
  Rat(Abs(actualCount - expectedCount), expectedCount)

\* the count check calling a change of exactly one half high
checkElementCountChange_halfIsHigh(config, expected, actual) ==
  IF Len(expected.elements) = 0 THEN <<>>
  ELSE IF RatLT(config.elementCountThreshold,
                changeRatio(Len(expected.elements), Len(actual.elements)))
  THEN <<DriftAlert(IF RatLE(<<1, 2>>,
                             changeRatio(Len(expected.elements), Len(actual.elements)))
                    THEN "high" ELSE "medium",
                    "element_count_change", <<>>)>>
  ELSE <<>>

\* a DriftAlert | null is a sequence of length 1 or 0
checkElementCountChange(config, expected, actual) ==
  IF Len(expected.elements) = 0 THEN <<>>
  ELSE IF RatLT(config.elementCountThreshold,
                changeRatio(Len(expected.elements), Len(actual.elements)))
  THEN <<DriftAlert(IF RatLT(<<1, 2>>,
                             changeRatio(Len(expected.elements), Len(actual.elements)))
                    THEN "high" ELSE "medium",
                    "element_count_change", <<>>)>>
  ELSE <<>>

missingAnchorElement(config, expected, actual, a) ==
  IF /\ findIndexById(expected.elements, config.anchorElements[a]) # 0
     /\ findIndexById(actual.elements, config.anchorElements[a]) = 0
  THEN <<DriftAlert("high", "missing_anchor", <<config.anchorElements[a]>>)>>
  ELSE <<>>

missingAnchorText(config, expected, actual, a) ==
  IF /\ findIndexByAnchorText(expected.elements, config.anchorTexts[a]) # 0
     /\ findIndexByAnchorText(actual.elements, config.anchorTexts[a]) = 0
  THEN <<DriftAlert("high", "missing_anchor",
           <<expected.elements[
               findIndexByAnchorText(expected.elements, config.anchorTexts[a])].id>>)>>
  ELSE <<>>

checkMissingAnchors(config, expected, actual) ==
  LET byId(a) == missingAnchorElement(config, expected, actual, a)
      byText(a) == missingAnchorText(config, expected, actual, a)
  IN  pushAll([a_ \in 1..Len(config.anchorElements) |-> byId(a_)], 1)
        \o pushAll([a_ \in 1..Len(config.anchorTexts) |-> byText(a_)], 1)

\* the anchor loop body of checkLayoutShifts, for an anchor found in both maps
anchorShiftAlert(config, anchorId, expectedEl, actualEl) ==
  IF shiftExceeds(expectedEl.bbox, actualEl.bbox, config.layoutShiftThreshold)
  THEN <<DriftAlert(IF shiftExceeds(expectedEl.bbox, actualEl.bbox,
                                    config.layoutShiftThreshold * 2)
                    THEN "high" ELSE "medium",
                    "layout_shift", <<anchorId>>)>>
  ELSE <<>>

anchorShift(config, expected, actual, a) ==
  IF /\ findIndexById(expected.elements, config.anchorElements[a]) # 0
     /\ findIndexById(actual.elements, config.anchorElements[a]) # 0
  THEN anchorShiftAlert(config, config.anchorElements[a],
         expected.elements[findIndexById(expected.elements, config.anchorElements[a])],
         actual.elements[findIndexById(actual.elements, config.anchorElements[a])])
  ELSE <<>>

\* the text loop body of checkLayoutShifts, for an actual element found
textShiftAlert(config, expectedEl, actualEl) ==
  IF shiftExceeds(expectedEl.bbox, actualEl.bbox, config.layoutShiftThreshold * 2)
  THEN <<DriftAlert("low", "layout_shift", <<expectedEl.id, actualEl.id>>)>>
  ELSE <<>>

textShift(config, expectedEl, actual) ==
  IF expectedEl.text = <<>> THEN <<>>
  ELSE IF findIndexByTextAndRole(actual.elements, expectedEl.text, expectedEl.role) # 0
  THEN textShiftAlert(config, expectedEl,
         actual.elements[findIndexByTextAndRole(actual.elements, expectedEl.text,
                                                expectedEl.role)])
  ELSE <<>>

checkLayoutShifts(config, expected, actual) ==
  LET byAnchor(a) == anchorShift(config, expected, actual, a)
      byText(i) == textShift(config, expected.elements[i], actual)
  IN  pushAll([a_ \in 1..Len(config.anchorElements) |-> byAnchor(a_)], 1)
        \o pushAll([a_ \in 1..Len(expected.elements) |-> byText(a_)], 1)

textChange(config, expected, actual, a) ==
  IF /\ findIndexById(expected.elements, config.anchorElements[a]) # 0
     /\ findIndexById(actual.elements, config.anchorElements[a]) # 0
     /\ expected.elements[findIndexById(expected.elements, config.anchorElements[a])].text
          # actual.elements[findIndexById(actual.elements, config.anchorElements[a])].text
  THEN <<DriftAlert("medium", "text_change", <<config.anchorElements[a]>>)>>
  ELSE <<>>

checkTextChanges(config, expected, actual) ==
  LET byAnchor(a) == textChange(config, expected, actual, a)
  IN  pushAll([a_ \in 1..Len(config.anchorElements) |-> byAnchor(a_)], 1)

\* the ids of `elements` that no element of `others` has, in order
RECURSIVE idsNotIn(_, _)
idsNotIn(elements, others) ==
  IF elements = <<>> THEN <<>>
  ELSE (IF findIndexById(others, Head(elements).id) = 0
          THEN <<Head(elements).id>> ELSE <<>>)
       \o idsNotIn(Tail(elements), others)

\* the test with >= in place of >
exceedsFifth_orEqual(n, expectedCount) == 5 * n >= expectedCount

\* n > expectedCount * 0.2, decided in the integers
exceedsFifth(n, expectedCount) == 5 * n > expectedCount

aggregateAlert(severity, type, ids, expectedCount) ==
  IF exceedsFifth(Len(ids), expectedCount)
  THEN <<DriftAlert(severity, type, ids)>>
  ELSE <<>>

checkNewElements(expected, actual) ==
  aggregateAlert("low", "new_element", idsNotIn(actual.elements, expected.elements),
                 Len(expected.elements))

checkRemovedElements(expected, actual) ==
  aggregateAlert("medium", "removed_element",
                 idsNotIn(expected.elements, actual.elements), Len(expected.elements))

DriftDetectionResult(alerts) == [hasAlerts |-> Len(alerts) > 0, alerts |-> alerts]

\* a detector that stops at the first check that raises an alert
detectDrift_firstAlertOnly(config, expected, actual) ==
  IF ~config.enabled THEN [hasAlerts |-> FALSE, alerts |-> <<>>]
  ELSE IF checkElementCountChange(config, expected, actual) # <<>>
  THEN DriftDetectionResult(checkElementCountChange(config, expected, actual))
  ELSE DriftDetectionResult(
         checkMissingAnchors(config, expected, actual)
           \o checkLayoutShifts(config, expected, actual)
           \o checkTextChanges(config, expected, actual)
           \o checkNewElements(expected, actual)
           \o checkRemovedElements(expected, actual))

detectDrift(config, expected, actual) ==
  IF ~config.enabled THEN [hasAlerts |-> FALSE, alerts |-> <<>>]
  ELSE DriftDetectionResult(
         checkElementCountChange(config, expected, actual)
           \o checkMissingAnchors(config, expected, actual)
           \o checkLayoutShifts(config, expected, actual)
           \o checkTextChanges(config, expected, actual)
           \o checkNewElements(expected, actual)
           \o checkRemovedElements(expected, actual))

\* a setter that adds to the list instead of replacing it
setAnchorElements_append(config, elementIds) ==
  [config EXCEPT !.anchorElements = config.anchorElements \o elementIds]

setAnchorElements(config, elementIds) == [config EXCEPT !.anchorElements = elementIds]

setAnchorTexts(config, texts) == [config EXCEPT !.anchorTexts = texts]

(***************************************************************************)
(* Inputs of the drift detector                                            *)
(***************************************************************************)
\* same corner as BoxA, wider: the centre is 4 pixels to the right
BoxWide == <<0, 0, 10, 2>>

\* corner 10 pixels from BoxA's, 5 pixels from BoxB's
BoxFar == <<6, 8, 2, 2>>

\* the elements the perception step may report under one id
DriftElementsFor(id) ==
  { UIElement(id, BoxA, "button", Abc, <<>>, NoNeighbors),
    UIElement(id, BoxWide, "button", Abc, <<>>, NoNeighbors),
    UIElement(id, BoxFar, "button", Abc, <<>>, NoNeighbors),
    UIElement(id, BoxB, "link", Abd, <<>>, NoNeighbors) }

\* element lists over the ids IdOf(from) .. IdOf(MaxDriftElements), each id used
\* at most once, in increasing order
RECURSIVE DriftElementLists(_)
DriftElementLists(from) ==
  IF from > MaxDriftElements THEN {<<>>}
  ELSE DriftElementLists(from + 1)
       \cup {<<e>> \o l : e \in DriftElementsFor(IdOf(from)),
                          l \in DriftElementLists(from + 1)}

\* a larger screen of n like buttons
WideElements(n) ==
  [i \in 1..n |-> UIElement(WideIds[i], BoxA, "button", Abc, <<>>, NoNeighbors)]

\* element counts of the larger screens: 10 against 13 is a change of exactly
\* 0.3, 10 against 12 brings exactly 20% new elements
WideCounts == {10, 12, 13, 14}

DriftUIMaps ==
  {UIMap(40, 40, l) : l \in DriftElementLists(1)}
    \cup {UIMap(40, 40, WideElements(n)) : n \in WideCounts}

AnchorElementLists == {<<>>, <<"E1">>, <<"E2", "E1">>}

AnchorTextLists == {<<>>, <<<<"C">>>>}

LayoutShiftThresholds == {3, 5}

DriftConfigs ==
  { DriftDetectorConfig(enabled, DefaultElementCountThreshold, shift, ids, texts) :
      enabled \in BOOLEAN, shift \in LayoutShiftThresholds,
      ids \in AnchorElementLists, texts \in AnchorTextLists }

NoDriftCall == [op |-> "none", expected |-> <<>>, actual |-> <<>>]

(***************************************************************************)
(* The drift detector as a state machine: one detector; dcall records the  *)
(* last detectDrift call and its arguments, dresult what it returned.      *)
(* dpassed is a history variable: the configuration values callers have    *)
(* handed to the detector, by the constructor and by the latest setters    *)
(***************************************************************************)
InitHealingIdle ==
  /\ uiMap = UIMap(40, 40, <<>>)
  /\ hconfig = HealingConfig(DefaultConfidenceThreshold)
  /\ hcall = NoCall
  /\ hresult = NoResult

InitDrift ==
  /\ dconfig \in DriftConfigs
  /\ dpassed = dconfig
  /\ dcall = NoDriftCall
  /\ dresult = NoResult
  /\ InitHealingIdle
  /\ InitTextIdle
  /\ InitOthersIdle

DetectDrift ==
  /\ dcall = NoDriftCall
  /\ \E expected \in DriftUIMaps, actual \in DriftUIMaps :
       /\ dcall' = [op |-> "detectDrift", expected |-> expected, actual |-> actual]
       /\ dresult' = detectDrift(dconfig, expected, actual)
  /\ UNCHANGED <<dconfig, dpassed, hvars, tvars, ovars>>

SetAnchorElements ==
  /\ dcall = NoDriftCall
  /\ \E elementIds \in AnchorElementLists :
       /\ dconfig' = setAnchorElements(dconfig, elementIds)
       /\ dpassed' = [dpassed EXCEPT !.anchorElements = elementIds]
  /\ UNCHANGED <<dcall, dresult, hvars, tvars, ovars>>

SetAnchorTexts ==
  /\ dcall = NoDriftCall
  /\ \E texts \in AnchorTextLists :
       /\ dconfig' = setAnchorTexts(dconfig, texts)
       /\ dpassed' = [dpassed EXCEPT !.anchorTexts = texts]
  /\ UNCHANGED <<dcall, dresult, hvars, tvars, ovars>>

\* the caller takes the alerts; the detector keeps nothing of the call
TakeAlerts ==
  /\ dcall # NoDriftCall
  /\ dcall' = NoDriftCall
  /\ dresult' = NoResult
  /\ UNCHANGED <<dconfig, dpassed, hvars, tvars, ovars>>

NextDrift == DetectDrift \/ SetAnchorElements \/ SetAnchorTexts \/ TakeAlerts

SpecDrift == InitDrift /\ [][NextDrift]_vars

(***************************************************************************)
(* The text utilities as a state machine: pure functions; tcall records    *)
(* the last call and its arguments, tresult what it returned               *)
(***************************************************************************)
InitText ==
  /\ InitTextIdle
  /\ InitHealingIdle
  /\ InitDriftIdle
  /\ InitOthersIdle

TextSimilarity ==
  /\ tcall = NoTextCall
  /\ \E a \in Texts, b \in Texts :
       /\ tcall' = [op |-> "textSimilarity", a |-> a, b |-> b]
       /\ tresult' = textSimilarity(a, b)
  /\ UNCHANGED <<hvars, dvars, ovars>>

LevenshteinDistance ==
  /\ tcall = NoTextCall
  /\ \E a \in Texts, b \in Texts :
       /\ tcall' = [op |-> "levenshteinDistance", a |-> a, b |-> b]
       /\ tresult' = levenshteinDistance(a, b)
  /\ UNCHANGED <<hvars, dvars, ovars>>

TakeText ==
  /\ tcall # NoTextCall
  /\ tcall' = NoTextCall
  /\ tresult' = NoResult
  /\ UNCHANGED <<hvars, dvars, ovars>>

NextText == TextSimilarity \/ LevenshteinDistance \/ TakeText

SpecText == InitText /\ [][NextText]_vars

(***************************************************************************)
(* Several DriftDetector instances.  Arrays are objects: heap holds the    *)
(* arrays allocated so far, a configuration field holds the index of one.  *)
(* DEFAULT_DRIFT_CONFIG is the module-level object; detectors are the      *)
(* instances constructed so far.  handed is a history variable: the anchor *)
(* ids and texts each instance was given by its constructor argument and   *)
(* its own setters, empty where it was given none                          *)
(***************************************************************************)
\* most instances constructed
MaxDetectors == 2

\* most arrays allocated, the two of DEFAULT_DRIFT_CONFIG included
MaxArrays == 4

\* the constructor arguments: no argument, or a partial configuration
PartialConfigKeys == {{}, {"anchorElements"}, {"anchorTexts"}}

\* this.config = { ...DEFAULT_DRIFT_CONFIG, ...config }: a field of the
\* argument wins, the others are copied from the defaults, arrays by reference
spreadConfig(defaults, config) ==
  [f \in DOMAIN defaults |-> IF f \in DOMAIN config THEN config[f] ELSE defaults[f]]

\* a setter that overwrites the array the configuration holds
assignAnchors_inPlace(heap_, config, field, ref) ==
  [heap |-> [heap_ EXCEPT ![config[field]] = heap_[ref]], config |-> config]

\* this.config.anchorElements = elementIds / this.config.anchorTexts = texts:
\* the field now refers to the caller's array; no array is written
assignAnchors(heap_, config, field, ref) ==
  [heap |-> heap_, config |-> [config EXCEPT ![field] = ref]]

\* the arrays a caller can pass for a field: one it still holds, or a new one;
\* each as <<heap with the array in it, index of the array>>
CallerArrays(kind, pool) ==
  {<<heap, r>> : r \in {k \in 1..Len(heap) : heap[k].kind = kind}}
    \cup (IF Len(heap) < MaxArrays
          THEN {<<Append(heap, [kind |-> kind, items |-> items]), Len(heap) + 1>> :
                  items \in pool}
          ELSE {})

ArraysFor(field) ==
  IF field = "anchorElements" THEN CallerArrays("ids", AnchorElementLists)
  ELSE CallerArrays("texts", AnchorTextLists)

\* the module is loaded: DEFAULT_DRIFT_CONFIG with its two empty arrays
InitInstances ==
  /\ heap = <<[kind |-> "ids", items |-> <<>>], [kind |-> "texts", items |-> <<>>]>>
  /\ DEFAULT_DRIFT_CONFIG =
       DriftDetectorConfig(TRUE, DefaultElementCountThreshold, 50, 1, 2)
  /\ detectors = <<>>
  /\ handed = <<>>
  /\ InitHealingIdle
  /\ InitDriftIdle
  /\ InitTextIdle
  /\ InitPlannerIdle
  /\ InitRunIdle
  /\ InitObjectsIdle

\* new DriftDetector(config)
Construct ==
  /\ Len(detectors) < MaxDetectors
  /\ \E keys \in PartialConfigKeys :
       IF keys = {}
       THEN /\ detectors' = Append(detectors, spreadConfig(DEFAULT_DRIFT_CONFIG, <<>>))
            /\ handed' = Append(handed, [anchorElements |-> <<>>, anchorTexts |-> <<>>])
            /\ UNCHANGED heap
       ELSE \E field \in keys :
              \E a \in ArraysFor(field) :
                /\ heap' = a[1]
                /\ detectors' =
                     Append(detectors,
                            spreadConfig(DEFAULT_DRIFT_CONFIG, [f \in keys |-> a[2]]))
                /\ handed' =
                     Append(handed,
                            [[anchorElements |-> <<>>, anchorTexts |-> <<>>]
                               EXCEPT ![field] = a[1][a[2]].items])
  /\ UNCHANGED <<DEFAULT_DRIFT_CONFIG, hvars, dvars, tvars, pvars, rvars, svars>>

\* detectors[d].setAnchorElements(elementIds) / detectors[d].setAnchorTexts(texts)
SetAnchorsOf(field) ==
  \E d \in 1..Len(detectors) :
    \E a \in ArraysFor(field) :
      LET after == assignAnchors(a[1], detectors[d], field, a[2])
      IN  /\ heap' = after.heap
          /\ detectors' = [detectors EXCEPT ![d] = after.config]
          /\ handed' = [handed EXCEPT ![d][field] = a[1][a[2]].items]
          /\ UNCHANGED <<DEFAULT_DRIFT_CONFIG, hvars, dvars, tvars, pvars, rvars, svars>>

SetAnchorElementsOf == SetAnchorsOf("anchorElements")

SetAnchorTextsOf == SetAnchorsOf("anchorTexts")

NextInstances == Construct \/ SetAnchorElementsOf \/ SetAnchorTextsOf

SpecInstances == InitInstances /\ [][NextInstances]_vars

(***************************************************************************)
(* LLMPlanner (packages/runner/src/planner/llm.ts): one planner; pcall     *)
(* records the last call and how it ended.  accepted is a history          *)
(* variable: the plan requests that got past both checks since the         *)
(* construction or the last resetCallCount                                 *)
(***************************************************************************)
\* largest maxCallsPerRun a planner is configured with
MaxCallsPerRun == 3

\* goal.split(/\s+/) of a goal without leading or trailing blanks
RECURSIVE splitWords(_, _)
splitWords(s, word) ==
  IF s = <<>> THEN <<word>>
  ELSE IF Head(s) = " " THEN <<word>> \o splitWords(Tail(s), <<>>)
  ELSE splitWords(Tail(s), Append(word, Head(s)))

\* the score mockPlan gives an element for a lower-cased goal
planScore(el, goalLower) ==
  LET keywords == splitWords(goalLower, <<>>)
      textLower == toLowerCase(el.text)
      captionLower == toLowerCase(el.caption)
      hit(cond, points) == IF cond THEN points ELSE 0
      RECURSIVE byKeyword(_)
      byKeyword(k) ==
        IF k > Len(keywords) THEN 0
        ELSE hit(includes(textLower, keywords[k]), 2)
             + hit(includes(captionLower, keywords[k]), 1) + byKeyword(k + 1)
      login == <<"l", "o", "g", "i", "n">>
      submit == <<"s", "u", "b", "m", "i", "t">>
  IN  byKeyword(1)
      + hit(includes(goalLower, <<"c", "l", "i", "c", "k">>) /\ el.role = "button", 1)
      + hit(includes(goalLower, <<"t", "y", "p", "e">>) /\ el.role = "input", 1)
      + hit(includes(goalLower, <<"s", "e", "a", "r", "c", "h">>) /\ el.role = "input", 1)
      + hit(includes(goalLower, login) /\ includes(textLower, login), 2)
      + hit(includes(goalLower, submit) /\ includes(textLower, submit), 2)

\* the goals of the model hold no quoted text: a TYPE action gets the text ''
mockPlan(request) ==
  LET goalLower == toLowerCase(request.goal)
      elements == SelectSeq(request.uiMap.elements, LAMBDA el : el.interactable)
      score(i) == planScore(elements[i], goalLower)
      best == {i \in 1..Len(elements) :
                 /\ score(i) > 0
                 /\ \A j \in 1..Len(elements) : score(j) <= score(i)
                 /\ \A j \in 1..(i - 1) : score(j) < score(i)}
  IN  IF best = {} THEN [actions |-> <<>>, confidence |-> Zero]
      ELSE LET i == CHOOSE k \in best : TRUE
           IN  [actions |->
                  <<[type |-> IF elements[i].role = "input" THEN "TYPE" ELSE "CLICK",
                     target |-> elements[i].id]>>,
                confidence |-> IF RatLT(<<9, 10>>, Rat(score(i), 5)) THEN <<9, 10>>
                               ELSE Rat(score(i), 5)]

\* interactable elements and elements with a text, the first 30
truncateUIMap(uiMap_) ==
  LET kept == SelectSeq(uiMap_.elements, LAMBDA el : el.interactable \/ Len(el.text) > 0)
  IN  [uiMap_ EXCEPT !.elements = SubSeq(kept, 1, Min2(30, Len(kept)))]

\* the limit test with > in place of >=
limitReached_strict(count, config) == count > config.maxCallsPerRun

\* this.callCount >= this.config.maxCallsPerRun
limitReached(count, config) == count >= config.maxCallsPerRun

\* plan: how the call ends, the call count after it, what it returns
plan(config, count, request) ==
  IF ~config.enabled
  THEN [ended |-> "threw", error |-> "disabled", callCount |-> count, value |-> <<>>]
  ELSE IF limitReached(count, config)
  THEN [ended |-> "threw", error |-> "limit", callCount |-> count, value |-> <<>>]
  ELSE [ended |-> "returned", error |-> "", callCount |-> count + 1,
        value |-> <<mockPlan(request)>>]

\* "Find the element: "
FindTheElement ==
  <<"F", "i", "n", "d", " ", "t", "h", "e", " ", "e", "l", "e", "m", "e", "n", "t", ":", " ">>

\* LLMPlanner.resolveElement: null (no value) when disabled or when the plan
\* names no target; an error of plan is not caught
plannerResolveElement(config, count, description, uiMap_) ==
  IF ~config.enabled
  THEN [ended |-> "returned", error |-> "", callCount |-> count, value |-> <<>>]
  ELSE LET p == plan(config, count,
                     [goal |-> FindTheElement \o description, uiMap |-> truncateUIMap(uiMap_)])
       IN  IF p.ended = "threw" THEN p
           ELSE [p EXCEPT !.value =
                   IF p.value[1].actions # <<>>
                   THEN <<[elementId |-> p.value[1].actions[1].target,
                           confidence |-> p.value[1].confidence]>>
                   ELSE <<>>]

\* the screens handed to the planner: a button, an input and a label
PlannerElement(id, role, text, interactable) ==
  [id |-> id, role |-> role, text |-> text, caption |-> <<>>, interactable |-> interactable]

PlannerMaps ==
  { UIMap(40, 40, <<>>),
    UIMap(40, 40, << PlannerElement("E1", "text", <<"O", "k">>, FALSE),
                     PlannerElement("E2", "button", <<"O", "k">>, TRUE),
                     PlannerElement("E3", "input", <<"a", "b">>, TRUE) >>) }

\* goals and element descriptions
PlannerGoals ==
  { <<"c", "l", "i", "c", "k", " ", "o", "k">>, <<"t", "y", "p", "e", " ", "a", "b">>,
    <<"b", "a">> }

\* { ...DEFAULT_LLM_CONFIG, ...config }; model, maxTokens, temperature are not read
PlannerConfigs ==
  [enabled : BOOLEAN, maxCallsPerRun : 0..MaxCallsPerRun]

InitPlanner ==
  /\ pconfig \in PlannerConfigs
  /\ callCount = 0
  /\ tokenUsage = 0
  /\ pcall = [op |-> "none"]
  /\ accepted = 0
  /\ InitHealingIdle
  /\ InitDriftIdle
  /\ InitTextIdle
  /\ InitInstancesIdle
  /\ InitRunIdle
  /\ InitObjectsIdle

\* what a call leaves behind: the count, the record of the call, the history
AfterCall(op, goal, uiMap_, p) ==
  /\ callCount' = p.callCount
  /\ pcall' = [op |-> op, goal |-> goal, uiMap |-> uiMap_,
               requested |-> op = "plan" \/ pconfig.enabled,
               countBefore |-> callCount, ended |-> p.ended, error |-> p.error,
               value |-> p.value]
  /\ accepted' = IF p.callCount = callCount + 1 THEN accepted + 1 ELSE accepted
  /\ UNCHANGED <<pconfig, tokenUsage, hvars, dvars, tvars, ivars, rvars, svars>>

Plan ==
  \E goal \in PlannerGoals, m \in PlannerMaps :
    AfterCall("plan", goal, m, plan(pconfig, callCount, [goal |-> goal, uiMap |-> m]))

PlannerResolveElement ==
  \E description \in PlannerGoals, m \in PlannerMaps :
    AfterCall("resolveElement", description, m,
              plannerResolveElement(pconfig, callCount, description, m))

ResetCallCount ==
  /\ callCount' = 0
  /\ tokenUsage' = 0
  /\ pcall' = [op |-> "resetCallCount"]
  /\ accepted' = 0
  /\ UNCHANGED <<pconfig, hvars, dvars, tvars, ivars, rvars, svars>>

NextPlanner == Plan \/ PlannerResolveElement \/ ResetCallCount

SpecPlanner == InitPlanner /\ [][NextPlanner]_vars

(***************************************************************************)
(* runCommand (packages/runner/src/cli/commands/run.ts): one run of one    *)
(* suite.  phase and stepIndex say where the run is; entries are the       *)
(* entries of the TrajectoryLogger.  executed is a history variable: the   *)
(* steps executed so far, each with what executeStep returned, the entry   *)
(* it logged and the HealingEvent that resolveElement returned in it.       *)
(* shown is the screen of the application under test: it shows a Sign In   *)
(* button until, at some moment of the run, the button is renamed          *)
(***************************************************************************)
\* most test steps of a suite
MaxSteps == 2

\* a button that a later screen shows renamed; the ids of the two differ
SignInButton == UIElement("E001", SignInBox, "button", SignIn, <<>>, NoNeighbors)

\* what the perception service reports for a screenshot: the screen before
\* and after the renaming
SignInScreen == UIMap(1200, 800, <<SignInButton>>)

LogInScreen == UIMap(1200, 800, <<LogInButton>>)

\* the screens the application can show later than screen
LaterScreens(screen) == IF screen = SignInScreen THEN {SignInScreen, LogInScreen} ELSE {screen}

\* text-based selectors (text:xxx, button:xxx); no element id holds a ':'
TextSelectors == {"text:Sign In"}

TestStep(type, target, continueOnFailure) ==
  [actions |-> <<[type |-> type, target |-> target]>>,
   continueOnFailure |-> continueOnFailure]

TestSteps ==
  { TestStep("ASSERT", "E001", FALSE), TestStep("ASSERT", "E001", TRUE),
    TestStep("CLICK", "E001", TRUE), TestStep("CLICK", "text:Sign In", FALSE) }

\* the sequences of test steps with n steps
RECURSIVE StepLists(_)
StepLists(n) ==
  IF n = 0 THEN {<<>>}
  ELSE {Append(l, st) : l \in StepLists(n - 1), st \in TestSteps}

\* TestSuiteSchema: steps has at least one step, setup and teardown may be empty
TestSuites ==
  [setup : {<<>>, <<TestStep("CLICK", "text:Sign In", FALSE)>>},
   steps : UNION {StepLists(n) : n \in 1..MaxSteps},
   teardown : {<<>>, <<TestStep("CLICK", "E001", FALSE),
                       TestStep("CLICK", "text:Sign In", FALSE)>>}]

\* new DriftDetector(): the values of DEFAULT_DRIFT_CONFIG
DefaultDriftValues ==
  DriftDetectorConfig(TRUE, DefaultElementCountThreshold, 50, <<>>, <<>>)

\* executeStep for a step of one action.  beforeUIMap, freshUIMap and
\* afterUIMap are what perception reports before the step, for an ASSERT and
\* after the step; result is the status executor.executeAction returns
executeStep(step, index, beforeUIMap, freshUIMap, result, afterUIMap) ==
  LET action == step.actions[1]
      currentUIMap == IF action.type = "ASSERT" THEN freshUIMap ELSE beforeUIMap
      k == findIndexById(beforeUIMap.elements, action.target)
      signature ==
        IF k = 0 THEN <<>>
        ELSE <<createSignature(beforeUIMap.elements[k], beforeUIMap)>>
      resolves == Truthy(action.target) /\ action.target \notin TextSelectors
      resolution ==
        IF resolves
        THEN resolveElement(HealingConfig(DefaultConfidenceThreshold), action.target,
                            currentUIMap, signature)
        ELSE [success |-> TRUE, element |-> <<>>, candidates |-> <<>>, event |-> <<>>]
      target ==
        IF resolution.element # <<>> /\ resolution.element[1].id # action.target
        THEN resolution.element[1].id ELSE action.target
      driftResult == detectDrift(DefaultDriftValues, beforeUIMap, afterUIMap)
  IN  IF ~resolution.success \/ result = "failure"
      THEN [success |-> FALSE, logged |-> <<>>, event |-> resolution.event]
      ELSE [success |-> TRUE,
            logged |-> <<[stepIndex |-> index,
                          action |-> [action EXCEPT !.target = target],
                          result |-> [status |-> "success"],
                          healingEvents |-> <<>>,
                          driftAlerts |-> driftResult.alerts]>>,
            event |-> resolution.event]

\* calculateSummary, the counts read by the run
calculateSummary(entries_) ==
  LET RECURSIVE total(_, _)
      total(count(_), i) ==
        IF i > Len(entries_) THEN 0 ELSE count(entries_[i]) + total(count, i + 1)
      hasStatus(status, e) == IF e.result.status = status THEN 1 ELSE 0
  IN  [totalSteps |-> Len(entries_),
       passedSteps |-> total(LAMBDA e : hasStatus("success", e) + hasStatus("healed", e), 1),
       failedSteps |-> total(LAMBDA e : hasStatus("failure", e), 1),
       healedSteps |-> total(LAMBDA e : hasStatus("healed", e), 1),
       totalHealingEvents |-> total(LAMBDA e : Len(e.healingEvents), 1),
       totalDriftAlerts |-> total(LAMBDA e : Len(e.driftAlerts), 1)]

\* the loop over the test steps never left early
stopsRun_never(step, success) == FALSE

\* if (!success && !step.continueOnFailure) break
stopsRun(step, success) == ~success /\ ~step.continueOnFailure

\* where the run goes when the steps of a phase are done or left
phaseAfter(suite_, phase_) ==
  IF phase_ = "setup" THEN "steps"
  ELSE IF phase_ = "steps" /\ Len(suite_.teardown) > 0 THEN "teardown"
  ELSE "summary"

InitRun ==
  /\ suite \in TestSuites
  /\ phase = IF Len(suite.setup) > 0 THEN "setup" ELSE "steps"
  /\ stepIndex = 1
  /\ passedSteps = 0
  /\ failedSteps = 0
  /\ entries = <<>>
  /\ executed = <<>>
  /\ summary = <<>>
  /\ exitCode = "none"
  /\ shown = SignInScreen
  /\ InitHealingIdle
  /\ InitDriftIdle
  /\ InitTextIdle
  /\ InitInstancesIdle
  /\ InitPlannerIdle
  /\ InitObjectsIdle

\* one call of executeStep in the loop of the phase; the logger appends the
\* entry; only the loop over the test steps counts the outcome and can be
\* left early
ExecuteIn(phase_, steps, index, isTest) ==
  /\ phase = phase_
  /\ \E freshUIMap \in LaterScreens(shown) :
       \E afterUIMap \in LaterScreens(freshUIMap), result \in {"success", "failure"} :
         LET step == steps[stepIndex]
             r == executeStep(step, index, shown, freshUIMap, result, afterUIMap)
             leave == stepIndex = Len(steps) \/ (isTest /\ stopsRun(step, r.success))
         IN  /\ entries' = entries \o r.logged
             /\ executed' = Append(executed,
                                   [phase |-> phase_, step |-> stepIndex,
                                    success |-> r.success, logged |-> r.logged,
                                    event |-> r.event])
             /\ passedSteps' = IF isTest /\ r.success THEN passedSteps + 1 ELSE passedSteps
             /\ failedSteps' = IF isTest /\ ~r.success THEN failedSteps + 1 ELSE failedSteps
             /\ phase' = IF leave THEN phaseAfter(suite, phase_) ELSE phase_
             /\ stepIndex' = IF leave THEN 1 ELSE stepIndex + 1
             /\ shown' = afterUIMap
  /\ UNCHANGED <<suite, summary, exitCode, hvars, dvars, tvars, ivars, pvars, svars>>

ExecuteSetupStep == ExecuteIn("setup", suite.setup, -1, FALSE)

ExecuteTestStep == ExecuteIn("steps", suite.steps, stepIndex - 1, TRUE)

ExecuteTeardownStep == ExecuteIn("teardown", suite.teardown, -1, FALSE)

\* endRun, the printed summary, cleanup and the exit; threw: endRun or cleanup
\* rejected, which the catch of runCommand turns into exit code 1
Finish ==
  /\ phase = "summary"
  /\ \E threw \in BOOLEAN :
       /\ summary' = calculateSummary(entries)
       /\ exitCode' = IF threw \/ failedSteps > 0 THEN 1 ELSE 0
  /\ phase' = "exited"
  /\ UNCHANGED <<suite, stepIndex, passedSteps, failedSteps, entries, executed, shown,
                 hvars, dvars, tvars, ivars, pvars, svars>>

NextRun == ExecuteSetupStep \/ ExecuteTestStep \/ ExecuteTeardownStep \/ Finish

SpecRun == InitRun /\ [][NextRun]_vars

(***************************************************************************)
(* The objects a caller holds: UIMaps it got from the perception step and  *)
(* signatures createSignature returned to it.  A call is handed references *)
(* into objects; what the code writes during a call goes to the arrays it  *)
(* names, and the call hands back the objects as it leaves them.  created  *)
(* is a history variable: each object as it was when the caller got it     *)
(***************************************************************************)
\* most signatures a caller keeps
MaxSignatures == 2

\* the label moved in front of the button
LabelFirstMap ==
  UIMap(40, 40, <<LongTextMap.elements[2], LongTextMap.elements[1]>>)

HeldMaps == {LongTextMap, LabelFirstMap}

HeldTargets == {"E2", MissingId}

HeldDriftConfigs ==
  {DriftDetectorConfig(TRUE, DefaultElementCountThreshold, 3, <<"E1">>, <<TenAs>>)}

RefsOf(objs, kind) == {r \in 1..Len(objs) : objs[r].kind = kind}

\* findElement sorting uiMap.elements itself by score and taking its
\* candidates from the sorted list
findElementMemory_sortsElements(objs, matcherRef, mapRef) ==
  LET uiMap_ == objs[mapRef].value
      scored == [i \in 1..Len(uiMap_.elements) |->
                   [element |-> uiMap_.elements[i],
                    score |-> scoreElement(uiMap_.elements[i], objs[matcherRef].value,
                                           uiMap_).score,
                    reasons |-> scoreElement(uiMap_.elements[i], objs[matcherRef].value,
                                             uiMap_).reasons]]
      sorted == sortByScore(<<>>, scored)
  IN  [objects |-> [objs EXCEPT ![mapRef].value.elements =
                                  [i \in 1..Len(sorted) |-> sorted[i].element]],
       candidates |-> SelectSeq(sorted, LAMBDA c : RatLT(Zero, c.score))]

\* the arrays findElement writes: `const candidates = []` is a new array, the
\* loop pushes to it, candidates.sort sorts it in place
findElementMemory(objs, matcherRef, mapRef) ==
  LET allocated == [objects |-> objs, candidates |-> <<>>]
      pushed == [allocated EXCEPT !.candidates =
                   @ \o scoredCandidates(objs[matcherRef].value, objs[mapRef].value, 1)]
      sorted == [pushed EXCEPT !.candidates = sortByScore(<<>>, @)]
  IN  sorted

findElementOn(config, objs, matcherRef, mapRef, originalTarget) ==
  LET memory == findElementMemory(objs, matcherRef, mapRef)
  IN  [objects |-> memory.objects,
       result |-> acceptBest(config, memory.candidates, originalTarget)]

\* signatureRef is 0 when no previous signature is passed
resolveElementOn(config, objs, targetId, mapRef, signatureRef) ==
  LET elements == objs[mapRef].value.elements
  IN  IF findIndexById(elements, targetId) # 0
      THEN [objects |-> objs,
            result |-> exactMatchResult(elements[findIndexById(elements, targetId)])]
      ELSE IF signatureRef # 0
      THEN findElementOn(config, objs, signatureRef, mapRef, targetId)
      ELSE [objects |-> objs,
            result |-> [success |-> FALSE, element |-> <<>>, candidates |-> <<>>,
                        event |-> <<>>]]

\* allNeighborIds and neighborTexts are new arrays (spread, map, filter, slice)
\* and the signature is a new object
createSignatureOn(objs, mapRef, i) ==
  [objects |-> objs,
   result |-> createSignature(objs[mapRef].value.elements[i], objs[mapRef].value)]

\* alerts, and the arrays and sets of the checks, are new ones
detectDriftOn(config, objs, expectedRef, actualRef) ==
  [objects |-> objs,
   result |-> detectDrift(config, objs[expectedRef].value, objs[actualRef].value)]

InitObjects ==
  /\ \E first \in HeldMaps, second \in HeldMaps :
       objects = <<[kind |-> "UIMap", value |-> first],
                   [kind |-> "UIMap", value |-> second]>>
  /\ created = [r \in 1..Len(objects) |-> objects[r].value]
  /\ ocall = [op |-> "none"]
  /\ InitHealingIdle
  /\ InitDriftIdle
  /\ InitTextIdle
  /\ InitInstancesIdle
  /\ InitPlannerIdle
  /\ InitRunIdle

CallResolveElement ==
  /\ \E targetId \in HeldTargets, mapRef \in RefsOf(objects, "UIMap") :
       \E signatureRef \in {0} \cup RefsOf(objects, "signature") :
         LET call == resolveElementOn(HealingConfig(DefaultConfidenceThreshold),
                                      objects, targetId, mapRef, signatureRef)
         IN  /\ objects' = call.objects
             /\ ocall' = [op |-> "resolveElement", targetId |-> targetId,
                          uiMap |-> mapRef, signature |-> signatureRef,
                          result |-> call.result]
  /\ UNCHANGED <<created, hvars, dvars, tvars, ivars, pvars, rvars>>

CallFindElement ==
  /\ \E matcherRef \in RefsOf(objects, "signature"), mapRef \in RefsOf(objects, "UIMap") :
       \E originalTarget \in {Undefined, "E1"} :
         LET call == findElementOn(HealingConfig(DefaultConfidenceThreshold),
                                   objects, matcherRef, mapRef, originalTarget)
         IN  /\ objects' = call.objects
             /\ ocall' = [op |-> "findElement", targetId |-> originalTarget,
                          uiMap |-> mapRef, signature |-> matcherRef,
                          result |-> call.result]
  /\ UNCHANGED <<created, hvars, dvars, tvars, ivars, pvars, rvars>>

\* the caller keeps the signature it is returned
CallCreateSignature ==
  /\ Cardinality(RefsOf(objects, "signature")) < MaxSignatures
  /\ \E mapRef \in RefsOf(objects, "UIMap") :
       \E i \in 1..Len(objects[mapRef].value.elements) :
         LET call == createSignatureOn(objects, mapRef, i)
         IN  /\ objects' = Append(call.objects,
                                  [kind |-> "signature", value |-> call.result])
             /\ created' = Append(created, call.result)
             /\ ocall' = [op |-> "createSignature", uiMap |-> mapRef, element |-> i]
  /\ UNCHANGED <<hvars, dvars, tvars, ivars, pvars, rvars>>

CallDetectDrift ==
  /\ \E config \in HeldDriftConfigs :
       \E expectedRef \in RefsOf(objects, "UIMap"), actualRef \in RefsOf(objects, "UIMap") :
         LET call == detectDriftOn(config, objects, expectedRef, actualRef)
         IN  /\ objects' = call.objects
             /\ ocall' = [op |-> "detectDrift", config |-> config,
                          expected |-> expectedRef, actual |-> actualRef,
                          result |-> call.result]
  /\ UNCHANGED <<created, hvars, dvars, tvars, ivars, pvars, rvars>>

NextObjects ==
  CallResolveElement \/ CallFindElement \/ CallCreateSignature \/ CallDetectDrift

SpecObjects == InitObjects /\ [][NextObjects]_vars

(***************************************************************************)
(* Properties of the healing engine                                        *)
(***************************************************************************)
IdsOf(uiMap_) == {uiMap_.elements[i].id : i \in 1..Len(uiMap_.elements)}

ElementWithId(uiMap_, id) ==
  CHOOSE e \in {uiMap_.elements[i] : i \in 1..Len(uiMap_.elements)} : e.id = id

\* the last call was resolveElement / findElement
Resolved == hcall.op = "resolveElement"

Found == hcall.op = "findElement"

\* the last call went through the scoring path with the matcher hcall.signature[1]
Scored ==
  \/ Found
  \/ Resolved /\ hcall.targetId \notin IdsOf(uiMap) /\ hcall.signature # <<>>

\* the score of the i-th element of the current map against the matcher of the call
ScoreOf(i) == scoreElement(uiMap.elements[i], hcall.signature[1], uiMap).score

\* the scores of all elements of the current map, by position
Scores == [i \in 1..Len(uiMap.elements) |-> ScoreOf(i)]

InUnit(r) == RatLE(Zero, r) /\ RatLE(r, One)

\* C1: resolveElement with the id of an element of the map returns success with
\* that element, exactly one candidate (that element, score 1.0, reason
\* exact_id_match) and no event, whether or not a signature is passed.
C1_ExactIdMatch ==
  (Resolved /\ hcall.targetId \in IdsOf(uiMap)) =>
    /\ hresult.success
    /\ hresult.element = <<ElementWithId(uiMap, hcall.targetId)>>
    /\ hresult.candidates =
         <<[element |-> ElementWithId(uiMap, hcall.targetId), score |-> One,
            reasons |-> <<<<"exact_id_match">>>>]>>
    /\ hresult.event = <<>>

\* C1 witness: an exact hit on a two-element map although a signature was passed
\* that, scored, puts the other element first
C1_Witness ==
  /\ Resolved
  /\ Len(uiMap.elements) = 2
  /\ hcall.targetId = "E2"
  /\ hcall.signature # <<>>
  /\ RatLT(ScoreOf(2), ScoreOf(1))
  /\ hresult.success
  /\ hresult.element[1].id = "E2"

\* C3 as stated: a result carries an event exactly when resolution succeeded and
\* the accepted id differs from the requested target id; the event names both ids
\* and the accepted candidate's score.
C3_EventIffHealed ==
  (Resolved \/ Found) =>
    /\ (hresult.event # <<>>) <=>
         (hresult.success /\ hresult.element[1].id # hcall.targetId)
    /\ hresult.event # <<>> =>
         /\ hresult.event[1].originalTarget = hcall.targetId
         /\ hresult.event[1].healedTarget = hresult.element[1].id
         /\ hresult.event[1].confidence = hresult.candidates[1].score
         /\ hresult.candidates[1].element = hresult.element[1]

\* C3 amended: a result carries an event exactly when resolution succeeded, a
\* non-empty original target id was passed, and the accepted id differs from it;
\* the event names both ids and the accepted candidate's score.
C3_EventIffHealedFromGivenTarget ==
  (Resolved \/ Found) =>
    /\ (hresult.event # <<>>) <=>
         /\ hresult.success
         /\ hcall.targetId # Undefined
         /\ hcall.targetId # ""
         /\ hresult.element[1].id # hcall.targetId
    /\ hresult.event # <<>> =>
         /\ hresult.event[1].originalTarget = hcall.targetId
         /\ hresult.event[1].healedTarget = hresult.element[1].id
         /\ hresult.event[1].confidence = hresult.candidates[1].score
         /\ hresult.candidates[1].element = hresult.element[1]

\* C3 witness: resolveElement healed a missing id and reported it
C3_Witness ==
  /\ Resolved
  /\ hcall.targetId = MissingId
  /\ hresult.success
  /\ hresult.event # <<>>
  /\ hresult.event[1].healedTarget = "E2"

\* C4: findElement succeeds exactly when the highest element score is non-zero
\* and at least the threshold; the returned element attains the highest score;
\* the candidates are exactly the elements with a non-zero score, each with its
\* score, in non-increasing order of score.
C4_FindAcceptsBest ==
  Found =>
    \A sc \in {Scores} :
    LET n == Len(uiMap.elements)
        cs == hresult.candidates
    IN  /\ hresult.success <=>
             \E i \in 1..n :
               /\ sc[i] # Zero
               /\ \A j \in 1..n : RatLE(sc[j], sc[i])
               /\ RatLE(hconfig.confidenceThreshold, sc[i])
        /\ hresult.success =>
             \E i \in 1..n :
               /\ hresult.element = <<uiMap.elements[i]>>
               /\ \A j \in 1..n : RatLE(sc[j], sc[i])
        /\ {cs[k].element : k \in 1..Len(cs)} =
             {uiMap.elements[i] : i \in {j \in 1..n : sc[j] # Zero}}
        /\ Len(cs) = Cardinality({j \in 1..n : sc[j] # Zero})
        /\ \A k \in 1..Len(cs) : \E i \in 1..n :
             cs[k].element = uiMap.elements[i] /\ cs[k].score = sc[i]
        /\ \A k \in 1..(Len(cs) - 1) : RatLE(cs[k + 1].score, cs[k].score)

\* C4 witness: a success where the sort moved the second element in front of the
\* first and the best score equals the threshold
C4_Witness ==
  /\ Found
  /\ Len(uiMap.elements) = 2
  /\ hresult.success
  /\ Len(hresult.candidates) = 2
  /\ hresult.candidates[1].element.id = "E2"
  /\ hresult.candidates[1].score = hconfig.confidenceThreshold
  /\ RatLT(hresult.candidates[2].score, hresult.candidates[1].score)

\* the score the claim C5 gives: a field counts when it is supplied (for
\* neighborTexts: supplied and non-empty), an empty text or caption included
ClaimedScore(element, matcher, uiMap_) ==
  LET hasText == "text" \in matcher.has
      hasCaption == "caption" \in matcher.has
      hasRole == "role" \in matcher.has
      hasBbox == "bbox" \in matcher.has
      hasNeighbors == "neighborTexts" \in matcher.has /\ matcher.neighborTexts # <<>>
      term(used, score, w) == IF used THEN RatMul(score, <<w, 100>>) ELSE Zero
      wt(used, w) == IF used THEN w ELSE 0
      num == RatAdd(RatAdd(RatAdd(RatAdd(
               term(hasText, textSimilarity(element.text, matcher.text), 35),
               term(hasCaption, textSimilarity(element.caption, matcher.caption), 20)),
               term(hasRole, IF element.role = matcher.role THEN One ELSE Zero, 20)),
               term(hasBbox, bboxProximity(matcher.bbox, element.bbox,
                                           uiMap_.screen.width, uiMap_.screen.height), 15)),
               term(hasNeighbors,
                    hasMatchingNeighbors(element, uiMap_, matcher.neighborTexts), 10))
      den == wt(hasText, 35) + wt(hasCaption, 20) + wt(hasRole, 20)
               + wt(hasBbox, 15) + wt(hasNeighbors, 10)
  IN  IF den = 0 THEN Zero ELSE RatDiv(num, <<den, 100>>)

\* C5 as stated: the score of every element is the weighted mean of the signals
\* of the supplied fields, a text or caption supplied as the empty string
\* counting as supplied.
C5_ScoreOverSuppliedFields ==
  Scored =>
    /\ \A k \in 1..Len(hresult.candidates) :
         hresult.candidates[k].score =
           ClaimedScore(hresult.candidates[k].element, hcall.signature[1], uiMap)
    /\ \A i \in 1..Len(uiMap.elements) :
         ScoreOf(i) = ClaimedScore(uiMap.elements[i], hcall.signature[1], uiMap)

\* C6: resolveElement(e.id, m, createSignature(e, m)) succeeds, returns e itself
\* and reports score 1.0.
C6_RoundTrip ==
  \A i \in 1..Len(uiMap.elements) :
    ( /\ Resolved
      /\ hcall.targetId = uiMap.elements[i].id
      /\ hcall.signature = <<createSignature(uiMap.elements[i], uiMap)>> ) =>
        /\ hresult.success
        /\ hresult.element = <<uiMap.elements[i]>>
        /\ \E k \in 1..Len(hresult.candidates) :
             /\ hresult.candidates[k].element = uiMap.elements[i]
             /\ hresult.candidates[k].score = One
        /\ \A k \in 1..Len(hresult.candidates) : RatLE(hresult.candidates[k].score, One)

\* C6 witness: the round trip for the second of two elements that have the same
\* text, caption, role, bbox and neighbours, so that scoring cannot tell them apart
C6_Witness ==
  /\ Resolved
  /\ Len(uiMap.elements) = 2
  /\ hcall.targetId = "E2"
  /\ hcall.signature = <<createSignature(uiMap.elements[2], uiMap)>>
  /\ [uiMap.elements[1] EXCEPT !.id = "E2"] = uiMap.elements[2]
  /\ hresult.success
  /\ hresult.element = <<uiMap.elements[2]>>

\* C7: the normalized score of every element against every signature lies in
\* [0,1], and so does every candidate score and every event confidence.
C7_ScoreInUnitInterval ==
  Scored =>
    /\ \A sc \in {Scores} : \A i \in 1..Len(uiMap.elements) : InUnit(sc[i])
    /\ \A k \in 1..Len(hresult.candidates) : InUnit(hresult.candidates[k].score)
    /\ hresult.event # <<>> => InUnit(hresult.event[1].confidence)

\* C7 witness: a healing event with a confidence strictly between 0 and 1 on a map
\* with an element so far from the signature's bbox (centres 40 pixels apart on a
\* 40 pixel screen) that the clamp of bboxProximity acts
C7_Witness ==
  /\ Scored
  /\ hresult.event # <<>>
  /\ RatLT(Zero, hresult.event[1].confidence)
  /\ RatLT(hresult.event[1].confidence, One)
  /\ "bbox" \in hcall.signature[1].has
  /\ hcall.signature[1].bbox = BoxA
  /\ \E i \in 1..Len(uiMap.elements) : uiMap.elements[i].bbox = BoxC

\* C8: with a signature that has no field, every element scores 0, the candidate
\* list is empty and the call fails, whatever the threshold.
C8_EmptySignatureFails ==
  (Scored /\ hcall.signature[1].has = {}) =>
    /\ \A sc \in {Scores} : \A i \in 1..Len(uiMap.elements) : sc[i] = Zero
    /\ hresult.candidates = <<>>
    /\ ~hresult.success
    /\ hresult.element = <<>>

\* C8 witness: the empty signature against a non-empty map with threshold 0
C8_Witness ==
  /\ Scored
  /\ hcall.signature[1].has = {}
  /\ hconfig.confidenceThreshold = Zero
  /\ Len(uiMap.elements) = 2
  /\ ~hresult.success

\* C9: resolveElement with an id that is not in the map and without a signature
\* fails with no element, no event and no candidate.
C9_MissingIdNoSignature ==
  (Resolved /\ hcall.targetId \notin IdsOf(uiMap) /\ hcall.signature = <<>>) =>
    hresult = [success |-> FALSE, element |-> <<>>, candidates |-> <<>>,
               event |-> <<>>]

\* C9 witness: such a call on a non-empty map, for the missing id and for the
\* empty id
C9_Witness ==
  /\ Resolved
  /\ hcall.targetId \in {MissingId, ""}
  /\ hcall.signature = <<>>
  /\ Len(uiMap.elements) = 2
  /\ ~hresult.success

(***************************************************************************)
(* Properties of the drift detector                                        *)
(***************************************************************************)
Detected == dcall.op = "detectDrift"

\* C2 as stated: detectDrift(m, m) returns hasAlerts = false and no alerts, for
\* every map m with unique ids and every configuration.
C2_SelfComparisonSilent ==
  (Detected /\ dcall.expected = dcall.actual) =>
    dresult = [hasAlerts |-> FALSE, alerts |-> <<>>]

\* the anchor layout_shift alerts of the result for one anchor id
AnchorShiftAlerts(anchorId) ==
  {k \in 1..Len(dresult.alerts) :
     /\ dresult.alerts[k].type = "layout_shift"
     /\ dresult.alerts[k].affectedElements = <<anchorId>>}

\* squared distance of the top-left corners of two bboxes
CornerDistance2(b1, b2) ==
  (b2[1] - b1[1]) * (b2[1] - b1[1]) + (b2[2] - b1[2]) * (b2[2] - b1[2])

\* squared distance of the centres of two bboxes, times 4
CenterDistance2x4(b1, b2) ==
  (Center2(b2)[1] - Center2(b1)[1]) * (Center2(b2)[1] - Center2(b1)[1])
    + (Center2(b2)[2] - Center2(b1)[2]) * (Center2(b2)[2] - Center2(b1)[2])

\* the configured anchor ids present in both maps of the call
AnchorsInBoth ==
  {dconfig.anchorElements[a] : a \in 1..Len(dconfig.anchorElements)}
    \cap IdsOf(dcall.expected) \cap IdsOf(dcall.actual)

\* C10 as stated (for an enabled detector): an anchor present in both maps gets a
\* layout_shift alert exactly when the distance between the bbox centres exceeds
\* the threshold; the severity is high beyond twice the threshold, else medium.
C10_AnchorShiftByCenters ==
  (Detected /\ dconfig.enabled) =>
    \A id \in AnchorsInBoth :
      LET d == CenterDistance2x4(ElementWithId(dcall.expected, id).bbox,
                                 ElementWithId(dcall.actual, id).bbox)
          t == dconfig.layoutShiftThreshold
      IN  /\ (AnchorShiftAlerts(id) # {}) <=> (d > 4 * t * t)
          /\ \A k \in AnchorShiftAlerts(id) :
               dresult.alerts[k].severity = IF d > 16 * t * t THEN "high" ELSE "medium"

\* C10 amended: with detection enabled, an anchor present in both maps gets a
\* layout_shift alert exactly when the distance between the top-left corners
\* (x, y) of the two bboxes exceeds the threshold; the severity is high beyond
\* twice the threshold, else medium.
C10_AnchorShiftByCorners ==
  (Detected /\ dconfig.enabled) =>
    \A id \in AnchorsInBoth :
      LET d == CornerDistance2(ElementWithId(dcall.expected, id).bbox,
                               ElementWithId(dcall.actual, id).bbox)
          t == dconfig.layoutShiftThreshold
      IN  /\ (AnchorShiftAlerts(id) # {}) <=> (d > t * t)
          /\ \A k \in AnchorShiftAlerts(id) :
               dresult.alerts[k].severity = IF d > 4 * t * t THEN "high" ELSE "medium"

\* C10 witness: anchor E1 moved by 10 pixels with threshold 5, exactly twice the
\* threshold: a medium alert
C10_Witness ==
  /\ Detected
  /\ dconfig.enabled
  /\ dconfig.layoutShiftThreshold = 5
  /\ "E1" \in AnchorsInBoth
  /\ ElementWithId(dcall.expected, "E1").bbox = BoxA
  /\ ElementWithId(dcall.actual, "E1").bbox = BoxFar
  /\ \E k \in AnchorShiftAlerts("E1") : dresult.alerts[k].severity = "medium"


\* the alerts of one type in the result
AlertsOfType(type) ==
  {k \in 1..Len(dresult.alerts) : dresult.alerts[k].type = type}

\* what C11 says of a result: no element_count_change alert when expected is
\* empty or the ratio is at most the threshold; else exactly one, high when the
\* ratio exceeds one half and medium otherwise
CountAlertAsClaimed ==
  LET e == Len(dcall.expected.elements)
      a == Len(dcall.actual.elements)
      n == Abs(a - e)
      t == dconfig.elementCountThreshold
  IN  IF e > 0 /\ n * t[2] > t[1] * e
        THEN /\ Cardinality(AlertsOfType("element_count_change")) = 1
             /\ \A k \in AlertsOfType("element_count_change") :
                  dresult.alerts[k].severity = IF 2 * n > e THEN "high" ELSE "medium"
        ELSE AlertsOfType("element_count_change") = {}

\* C11 as stated: for every detector, detectDrift emits exactly one
\* element_count_change alert when the count ratio exceeds the threshold, high
\* above one half and medium otherwise, and none when expected is empty.
C11_CountChangeAlert == Detected => CountAlertAsClaimed

\* C11 amended: the same, for a detector with detection enabled.
C11_CountChangeAlertWhenEnabled ==
  (Detected /\ dconfig.enabled) => CountAlertAsClaimed

\* C11 witness: 10 expected against 14 actual elements, one medium alert
C11_Witness ==
  /\ Detected
  /\ dconfig.enabled
  /\ Len(dcall.expected.elements) = 10
  /\ Len(dcall.actual.elements) = 14
  /\ \E k \in AlertsOfType("element_count_change") :
       dresult.alerts[k].severity = "medium"


\* some element of the map has a text that holds the anchor text, case ignored
HoldsText(uiMap_, anchorText) ==
  \E i \in 1..Len(uiMap_.elements) :
    includes(toLowerCase(uiMap_.elements[i].text), toLowerCase(anchorText))

\* what C12 says of a result: one high missing_anchor alert for each configured
\* anchor id in expected and not in actual, one for each configured anchor text
\* held by an expected text and by no actual text, and no other
MissingAnchorsAsClaimed ==
  LET ids == dconfig.anchorElements
      texts == dconfig.anchorTexts
      missingIds == {a \in 1..Len(ids) : /\ ids[a] \in IdsOf(dcall.expected)
                                         /\ ids[a] \notin IdsOf(dcall.actual)}
      missingTexts == {a \in 1..Len(texts) : /\ HoldsText(dcall.expected, texts[a])
                                             /\ ~HoldsText(dcall.actual, texts[a])}
  IN  /\ Cardinality(AlertsOfType("missing_anchor"))
           = Cardinality(missingIds) + Cardinality(missingTexts)
      /\ \A k \in AlertsOfType("missing_anchor") : dresult.alerts[k].severity = "high"
      /\ \A a \in missingIds :
           \E k \in AlertsOfType("missing_anchor") :
             dresult.alerts[k].affectedElements = <<ids[a]>>

\* C12 as stated: for every detector, detectDrift emits one high missing_anchor
\* alert per configured anchor id that expected has and actual lacks, one per
\* configured anchor text found (case ignored) in expected and not in actual,
\* and no other missing_anchor alert.
C12_MissingAnchorAlerts == Detected => MissingAnchorsAsClaimed

\* C12 amended: the same, for a detector with detection enabled.
C12_MissingAnchorAlertsWhenEnabled ==
  (Detected /\ dconfig.enabled) => MissingAnchorsAsClaimed

\* C12 witness: anchor E1 is gone, and so is the only text holding the anchor
\* text "C" (as "abc"): two alerts, while anchor E2 is still there
C12_Witness ==
  /\ Detected
  /\ dconfig.enabled
  /\ dconfig.anchorElements = <<"E2", "E1">>
  /\ dconfig.anchorTexts = <<<<"C">>>>
  /\ IdsOf(dcall.expected) = {"E1", "E2"}
  /\ IdsOf(dcall.actual) = {"E2"}
  /\ HoldsText(dcall.expected, <<"C">>)
  /\ ~HoldsText(dcall.actual, <<"C">>)
  /\ Cardinality(AlertsOfType("missing_anchor")) = 2


\* the ids of uiMap_, in order, that are not ids of other
IdsAbsentFrom(uiMap_, other) ==
  SelectSeq([i \in 1..Len(uiMap_.elements) |-> uiMap_.elements[i].id],
            LAMBDA id : id \notin IdsOf(other))

\* exactly one alert of this type and severity listing ids when there are more
\* ids than 20% of expected's element count, and none otherwise
AggregateAsClaimed(type, severity, ids) ==
  IF 5 * Len(ids) > Len(dcall.expected.elements)
    THEN /\ Cardinality(AlertsOfType(type)) = 1
         /\ \A k \in AlertsOfType(type) :
              /\ dresult.alerts[k].severity = severity
              /\ dresult.alerts[k].affectedElements = ids
    ELSE AlertsOfType(type) = {}

\* what C13 says of a result
NewAndRemovedAsClaimed ==
  /\ AggregateAsClaimed("new_element", "low",
                        IdsAbsentFrom(dcall.actual, dcall.expected))
  /\ AggregateAsClaimed("removed_element", "medium",
                        IdsAbsentFrom(dcall.expected, dcall.actual))

\* C13 as stated: for every detector, detectDrift emits exactly one low
\* new_element alert listing the actual ids absent from expected when they are
\* more than 20% of expected's count, exactly one medium removed_element alert
\* listing the expected ids absent from actual when they are more than 20% of
\* expected's count, and neither otherwise.
C13_NewAndRemovedAlerts == Detected => NewAndRemovedAsClaimed

\* C13 amended: the same, for a detector with detection enabled.
C13_NewAndRemovedAlertsWhenEnabled ==
  (Detected /\ dconfig.enabled) => NewAndRemovedAsClaimed

\* C13 witness: 10 expected elements and 2 new ones, exactly 20%: no alert
C13_Witness ==
  /\ Detected
  /\ dconfig.enabled
  /\ Len(dcall.expected.elements) = 10
  /\ Len(IdsAbsentFrom(dcall.actual, dcall.expected)) = 2
  /\ AlertsOfType("new_element") = {}


\* the low layout_shift alerts of the result raised for one expected element
TextShiftAlerts(id) ==
  {k \in 1..Len(dresult.alerts) :
     /\ dresult.alerts[k].type = "layout_shift"
     /\ dresult.alerts[k].severity = "low"
     /\ dresult.alerts[k].affectedElements[1] = id}

\* the positions of the actual elements with the text and role of e
SameTextAndRole(e) ==
  {j \in 1..Len(dcall.actual.elements) :
     /\ dcall.actual.elements[j].text = e.text
     /\ dcall.actual.elements[j].role = e.role}

AllCheckAlerts ==
  checkElementCountChange(dconfig, dcall.expected, dcall.actual)
    \o checkMissingAnchors(dconfig, dcall.expected, dcall.actual)
    \o checkLayoutShifts(dconfig, dcall.expected, dcall.actual)
    \o checkTextChanges(dconfig, dcall.expected, dcall.actual)
    \o checkNewElements(dcall.expected, dcall.actual)
    \o checkRemovedElements(dcall.expected, dcall.actual)

\* C15 as stated: for every configuration the alerts of detectDrift are the
\* alerts of all checks, each evaluated on its own, concatenated; hasAlerts is
\* true exactly when the list is not empty.
C15_AllChecksRun ==
  Detected =>
    /\ dresult.alerts = AllCheckAlerts
    /\ dresult.hasAlerts <=> (dresult.alerts # <<>>)

\* C15 amended: for every configuration with detection enabled the alerts are
\* the alerts of all checks concatenated; with detection disabled no check runs
\* and the list is empty; hasAlerts is true exactly when the list is not empty.
C15_AllChecksRunWhenEnabled ==
  Detected =>
    /\ dconfig.enabled => dresult.alerts = AllCheckAlerts
    /\ ~dconfig.enabled => dresult.alerts = <<>>
    /\ dresult.hasAlerts <=> (dresult.alerts # <<>>)

\* C15 witness: a count change, a missing anchor, a layout shift and a text
\* change reported by one call
C15_Witness ==
  /\ Detected
  /\ dconfig.enabled
  /\ dresult.hasAlerts
  /\ AlertsOfType("element_count_change") # {}
  /\ AlertsOfType("missing_anchor") # {}
  /\ AlertsOfType("text_change") # {}
  /\ AlertsOfType("layout_shift") # {}


(***************************************************************************)
(* Properties of the text utilities                                        *)
(***************************************************************************)
Compared == tcall.op = "textSimilarity"

\* what C16 says textSimilarity(a, b) is, from the trimmed, case-folded forms
ClaimedSimilarity(a, b) ==
  LET na == trim(toLowerCase(a))
      nb == trim(toLowerCase(b))
  IN  IF na = <<>> /\ nb = <<>> THEN One
      ELSE IF na = <<>> \/ nb = <<>> THEN Zero
      ELSE RatSub(One, Rat(levenshteinDistance(na, nb), Max2(Len(na), Len(nb))))

\* C16 as stated: textSimilarity(a, b) is 1 when the trimmed, case-folded forms
\* are both empty, 0 when exactly one is empty, and otherwise 1 minus their edit
\* distance over the longer length.
C16_SimilarityOfNormalizedForms ==
  Compared => tresult = ClaimedSimilarity(tcall.a, tcall.b)

\* C17: textSimilarity(a, b) equals textSimilarity(b, a), and a non-empty text
\* is at similarity 1 from itself.
C17_SymmetricAndReflexive ==
  Compared =>
    /\ tresult = textSimilarity(tcall.b, tcall.a)
    /\ (tcall.a = tcall.b /\ tcall.a # <<>>) => tresult = One

\* C17 witness: texts of different lengths, neither a prefix of the other, at a
\* similarity strictly between 0 and 1
C17_Witness ==
  /\ Compared
  /\ Len(trim(toLowerCase(tcall.a))) = 1
  /\ Len(trim(toLowerCase(tcall.b))) = 3
  /\ RatLT(Zero, tresult)
  /\ RatLT(tresult, One)


\* Scenario B: resolveElement with the default threshold and the "Sign In"
\* signature, for an id absent from a map whose only button is the "Log In"
\* button E009
ScenarioB ==
  /\ Resolved
  /\ hconfig.confidenceThreshold = DefaultConfidenceThreshold
  /\ hcall.signature = <<SignInSignature>>
  /\ hcall.targetId \notin IdsOf(uiMap)
  /\ \E i \in 1..Len(uiMap.elements) :
       /\ uiMap.elements[i] = LogInButton
       /\ \A j \in 1..Len(uiMap.elements) :
            j # i => uiMap.elements[j].role # "button"

\* the outcome C18 gives: success with E009 and an event from the requested id
\* to E009 whose method is one of text_similarity, role_match, bbox_proximity
HealedToLogIn ==
  /\ hresult.success
  /\ hresult.element = <<LogInButton>>
  /\ hresult.event # <<>>
  /\ hresult.event[1].originalTarget = hcall.targetId
  /\ hresult.event[1].healedTarget = "E009"
  /\ hresult.event[1].method \in {"text_similarity", "role_match", "bbox_proximity"}

SignatureCreated == hcall.op = "createSignature"

\* the neighbour ids of e pooled left, right, above, below, without the ids of no
\* element of the map and the ids of elements without text
TextedNeighbors(e) ==
  SelectSeq(e.neighbors.left \o e.neighbors.right \o e.neighbors.above
              \o e.neighbors.below,
            LAMBDA id : /\ id \in IdsOf(uiMap)
                        /\ ElementWithId(uiMap, id).text # <<>>)

\* C19: createSignature(e, m) copies text, caption, role and bbox of e, and its
\* neighborTexts are the texts of the first four pooled neighbour ids (left,
\* right, above, below, no deduplication) left after dropping unresolved ids and
\* elements without text.
C19_SignatureOfElement ==
  SignatureCreated =>
    LET e == ElementWithId(uiMap, hcall.targetId)
        ids == TextedNeighbors(e)
    IN  /\ hresult.text = e.text
        /\ hresult.caption = e.caption
        /\ hresult.role = e.role
        /\ hresult.bbox = e.bbox
        /\ Len(hresult.neighborTexts) = Min2(4, Len(ids))
        /\ \A k \in 1..Len(hresult.neighborTexts) :
             /\ hresult.neighborTexts[k] = ElementWithId(uiMap, ids[k]).text
             /\ hresult.neighborTexts[k] # <<>>

\* C19 witness: eight neighbour ids, six of them left after dropping, the first
\* four kept with E2's text twice
C19_Witness ==
  /\ SignatureCreated
  /\ uiMap = CrowdedMap
  /\ hcall.targetId = "E1"
  /\ Len(TextedNeighbors(uiMap.elements[1])) = 6
  /\ hresult.neighborTexts = <<Abd, AbcUpper, Abd, Abd>>

\* the first five candidates of the result as an event lists them
TopFive ==
  [i \in 1..Min2(5, Len(hresult.candidates)) |->
     [id |-> hresult.candidates[i].element.id,
      score |-> hresult.candidates[i].score,
      reason |-> hresult.candidates[i].reasons]]

\* C20 as stated: every findElement call, whether it succeeds or fails, leaves a
\* HealingEvent that lists the five highest-scoring candidates in non-increasing
\* score order, and never more than five.
C20_TopFiveWhateverOutcome ==
  Scored =>
    /\ hresult.event # <<>>
    /\ hresult.event[1].candidates = TopFive

\* C20 amended: every HealingEvent of a findElement call lists the five
\* highest-scoring candidates of the result (fewer if fewer exist) in
\* non-increasing score order and never more than five; a call that fails
\* leaves no event, its candidates are in the result only.
C20_TopFiveInEveryEvent ==
  Scored =>
    /\ hresult.event # <<>> =>
         /\ hresult.event[1].candidates = TopFive
         /\ Len(hresult.event[1].candidates) <= 5
         /\ \A k \in 1..(Len(hresult.event[1].candidates) - 1) :
              RatLE(hresult.event[1].candidates[k + 1].score,
                    hresult.event[1].candidates[k].score)
    /\ ~hresult.success => hresult.event = <<>>

\* C20 witness: six candidates in the result, five in the event
C20_Witness ==
  /\ Scored
  /\ Len(hresult.candidates) = 6
  /\ hresult.event # <<>>
  /\ Len(hresult.event[1].candidates) = 5

(***************************************************************************)
(* Properties of the event's method and of the neighbour score             *)
(***************************************************************************)
\* the kinds of reason recorded for the accepted candidate
AcceptedReasonKinds ==
  {hresult.candidates[1].reasons[i][1] : i \in 1..Len(hresult.candidates[1].reasons)}

\* C21: the method of an emitted HealingEvent follows from the accepted
\* candidate's recorded reasons by fixed priority: text_similarity if a text
\* reason was recorded, else role_match if the role matched, else
\* bbox_proximity if a bbox reason was recorded, else neighbor_anchor if a
\* neighbour reason was recorded, else text_similarity (also when the only
\* recorded reason is caption similarity).
C21_MethodByPriority ==
  (Scored /\ hresult.event # <<>>) =>
    /\ hresult.candidates[1].element = hresult.element[1]
    /\ hresult.event[1].method =
         (IF "text_similarity" \in AcceptedReasonKinds THEN "text_similarity"
          ELSE IF "role_match" \in AcceptedReasonKinds THEN "role_match"
          ELSE IF "bbox_proximity" \in AcceptedReasonKinds THEN "bbox_proximity"
          ELSE IF "neighbor_anchor" \in AcceptedReasonKinds THEN "neighbor_anchor"
          ELSE "text_similarity")

\* C21 witness: an event whose accepted candidate matched by role, bbox and
\* neighbours but not by text; the method is role_match
C21_Witness ==
  /\ Scored
  /\ hresult.event # <<>>
  /\ AcceptedReasonKinds = {"role_match", "bbox_proximity", "neighbor_anchor"}
  /\ hresult.event[1].method = "role_match"

(***************************************************************************)
(* Properties of the scenario texts                                        *)
(***************************************************************************)
\* the last call was levenshteinDistance
Measured == tcall.op = "levenshteinDistance"

\* C25 as stated: levenshteinDistance("sign in", "log in") is 4, so
\* textSimilarity("Sign In", "Log In") equals 1 - 4/7.
C25_DistanceFour ==
  /\ (Measured /\ tcall.a = toLowerCase(SignIn) /\ tcall.b = toLowerCase(LogIn)) =>
       tresult = 4
  /\ (Compared /\ tcall.a = SignIn /\ tcall.b = LogIn) =>
       tresult = RatSub(One, <<4, 7>>)

\* C25 amended: levenshteinDistance("sign in", "log in") is 3 (s -> l, i -> o,
\* n deleted), so textSimilarity("Sign In", "Log In") equals 1 - 3/7 = 4/7.
C25_DistanceThree ==
  /\ (Measured /\ tcall.a = toLowerCase(SignIn) /\ tcall.b = toLowerCase(LogIn)) =>
       tresult = 3
  /\ (Compared /\ tcall.a = SignIn /\ tcall.b = LogIn) =>
       tresult = RatSub(One, <<3, 7>>)

\* C25 witness: the two button texts were compared and scored 4/7
C25_Witness ==
  /\ Compared
  /\ tcall.a = SignIn
  /\ tcall.b = LogIn
  /\ tresult = <<4, 7>>

(***************************************************************************)
(* Properties of the neighbour score                                       *)
(***************************************************************************)
\* the last call was hasMatchingNeighbors
NeighborsMatched == hcall.op = "hasMatchingNeighbors"

\* the elements of the map that one of the four neighbour lists of e names
PooledNeighbors(e, uiMap_) ==
  {uiMap_.elements[k] : k \in {j \in 1..Len(uiMap_.elements) :
     \E dir \in {e.neighbors.left, e.neighbors.right, e.neighbors.above, e.neighbors.below} :
       \E n \in 1..Len(dir) : dir[n] = uiMap_.elements[j].id}}

\* the expected texts, by position, that some pooled neighbour is similar to
ExpectedWithNeighbor(e, uiMap_, expected) ==
  {i \in 1..Len(expected) :
     \E nb \in PooledNeighbors(e, uiMap_) :
       RatLT(<<7, 10>>, textSimilarity(nb.text, expected[i]))}

\* C26: hasMatchingNeighbors(e, m, expectedTexts) is 0 when expectedTexts is
\* empty, and otherwise the number of expected texts to which some element of
\* m named by e's pooled neighbour ids has textSimilarity strictly greater than
\* 0.7, divided by the number of expected texts; ids that name no element of m
\* contribute nothing.
C26_NeighborScore ==
  NeighborsMatched =>
    LET e == ElementWithId(uiMap, hcall.targetId)
        expected == hcall.expectedNeighborTexts
    IN  hresult =
          (IF expected = <<>> THEN Zero
           ELSE Rat(Cardinality(ExpectedWithNeighbor(e, uiMap, expected)),
                    Len(expected)))

\* C26 witness: an element with one dangling neighbour id and one neighbour
\* whose text is at similarity exactly 0.7 to the first expected text and equal
\* to the second; the score is 1/2
C26_Witness ==
  /\ NeighborsMatched
  /\ uiMap = LongTextMap
  /\ hcall.targetId = "E1"
  /\ hcall.expectedNeighborTexts = <<SevenAsThreeBs, TenAs>>
  /\ textSimilarity(TenAs, SevenAsThreeBs) = <<7, 10>>
  /\ hresult = <<1, 2>>

(***************************************************************************)
(* Properties of a signature looked up in its own map                      *)
(***************************************************************************)
\* the positions of the current map whose element has the signature of the call
SignatureOwners ==
  {i \in 1..Len(uiMap.elements) :
     hcall.signature = <<createSignature(uiMap.elements[i], uiMap)>>}

\* C29: for a map m with positive screen dimensions, an element e of m and a
\* confidence threshold of at most 1, findElement(createSignature(e, m), m)
\* succeeds, e is among the candidates with score exactly 1, and the returned
\* element has score exactly 1 and is the first element in m's order that
\* scores 1 (which need not be e).
C29_OwnSignatureFound ==
  (Found /\ RatLE(hconfig.confidenceThreshold, One)
     /\ uiMap.screen.width > 0 /\ uiMap.screen.height > 0) =>
    \A i \in SignatureOwners :
      \A sc \in {Scores} :
        /\ hresult.success
        /\ \E k \in 1..Len(hresult.candidates) :
             /\ hresult.candidates[k].element = uiMap.elements[i]
             /\ hresult.candidates[k].score = One
        /\ hresult.candidates[1].score = One
        /\ hresult.candidates[1].element = hresult.element[1]
        /\ \E j \in 1..Len(uiMap.elements) :
             /\ hresult.element[1] = uiMap.elements[j]
             /\ sc[j] = One
             /\ \A h \in 1..(j - 1) : sc[h] # One

\* C29 witness: the signature of the second of two like elements, with neighbour
\* texts in it, looked up at threshold 1; the first element is returned
C29_Witness ==
  /\ Found
  /\ hconfig.confidenceThreshold = One
  /\ Len(uiMap.elements) = 2
  /\ 2 \in SignatureOwners
  /\ hcall.signature[1].neighborTexts # <<>>
  /\ hresult.success
  /\ hresult.element[1].id = "E1"
  /\ Len(hresult.candidates) = 2
  /\ hresult.candidates[2].element.id = "E2"
  /\ hresult.candidates[2].score = One

(***************************************************************************)
(* Properties of the detector's configuration between calls                *)
(***************************************************************************)
\* the configurations that agree with what callers handed to this detector on
\* the thresholds, the anchor ids and the anchor texts
SamePassedInputs ==
  {c \in DriftConfigs :
     /\ c.elementCountThreshold = dpassed.elementCountThreshold
     /\ c.layoutShiftThreshold = dpassed.layoutShiftThreshold
     /\ c.anchorElements = dpassed.anchorElements
     /\ c.anchorTexts = dpassed.anchorTexts}

\* C22 as stated: over any sequence of setAnchorElements, setAnchorTexts and
\* detectDrift calls on one detector, each detectDrift result is a function
\* only of its two UIMaps, the thresholds and the anchor ids and texts passed
\* to the most recent setters (or the constructor): whatever detector agrees on
\* these returns the same result; detectDrift never changes the configuration.
C22_ResultFromMapsThresholdsAnchors ==
  /\ dconfig # <<>> => dconfig = dpassed
  /\ Detected =>
       \A c \in SamePassedInputs :
         dresult = detectDrift(c, dcall.expected, dcall.actual)

\* C22 amended: each detectDrift result is a function only of its two UIMaps,
\* the enabled flag, the thresholds and the anchor ids and texts passed to the
\* most recent setters (or the constructor); it does not depend on earlier
\* calls, and detectDrift never changes the configuration.
C22_ResultFromMapsAndConfiguration ==
  /\ dconfig # <<>> => dconfig = dpassed
  /\ Detected =>
       \A c \in SamePassedInputs :
         c.enabled = dpassed.enabled =>
           dresult = detectDrift(c, dcall.expected, dcall.actual)

\* C22 witness: an enabled detector with the anchors E2, E1 last handed to it
\* reports the anchor that the second map lacks
C22_Witness ==
  /\ Detected
  /\ dconfig.enabled
  /\ dconfig.anchorElements = <<"E2", "E1">>
  /\ dconfig.anchorTexts = <<>>
  /\ Len(dcall.expected.elements) = 2
  /\ Len(dcall.actual.elements) = 1
  /\ \E k \in 1..Len(dresult.alerts) : dresult.alerts[k].type = "missing_anchor"

(***************************************************************************)
(* Properties of several detector instances                                *)
(***************************************************************************)
\* the anchor ids / texts a configuration holds at present
AnchorsHeld(config, field) == heap[config[field]].items

\* C30: DriftDetector instances do not share configuration: whatever setter
\* calls are made on one instance, the anchor ids and texts of every other
\* instance stay what that instance itself was given, those of
\* DEFAULT_DRIFT_CONFIG stay empty, and so a detector constructed with no
\* arguments starts with empty anchor lists.
C30_NoSharedConfiguration ==
  DEFAULT_DRIFT_CONFIG # <<>> =>
    /\ AnchorsHeld(DEFAULT_DRIFT_CONFIG, "anchorElements") = <<>>
    /\ AnchorsHeld(DEFAULT_DRIFT_CONFIG, "anchorTexts") = <<>>
    /\ \A d \in 1..Len(detectors) :
         /\ AnchorsHeld(detectors[d], "anchorElements") = handed[d].anchorElements
         /\ AnchorsHeld(detectors[d], "anchorTexts") = handed[d].anchorTexts

\* C30 witness: two instances; the first was given anchor ids and texts by its
\* setters, the second still holds the arrays of DEFAULT_DRIFT_CONFIG, empty
C30_Witness ==
  /\ Len(detectors) = 2
  /\ AnchorsHeld(detectors[1], "anchorElements") = <<"E2", "E1">>
  /\ AnchorsHeld(detectors[1], "anchorTexts") # <<>>
  /\ detectors[2].anchorElements = DEFAULT_DRIFT_CONFIG.anchorElements
  /\ detectors[2].anchorTexts = DEFAULT_DRIFT_CONFIG.anchorTexts
  /\ AnchorsHeld(detectors[2], "anchorElements") = <<>>
  /\ AnchorsHeld(detectors[2], "anchorTexts") = <<>>

(***************************************************************************)
(* Properties of the planner's call limit                                  *)
(***************************************************************************)
\* the last call made a plan request: plan itself, or resolveElement of an
\* enabled planner
PlanRequested == pcall # <<>> /\ pcall.op \in {"plan", "resolveElement"} /\ pcall.requested

\* C28: after any sequence of plan, resolveElement and resetCallCount calls on
\* one planner, the number of plan requests accepted since the construction or
\* the last resetCallCount never exceeds maxCallsPerRun; a plan request made
\* while the planner is disabled or while the count has reached maxCallsPerRun
\* is rejected with an error and leaves the call count unchanged.
C28_CallLimit ==
  pconfig # <<>> =>
    /\ accepted <= pconfig.maxCallsPerRun
    /\ accepted = callCount
    /\ (PlanRequested /\ (~pconfig.enabled \/ pcall.countBefore >= pconfig.maxCallsPerRun)) =>
         /\ pcall.ended = "threw"
         /\ pcall.value = <<>>
         /\ callCount = pcall.countBefore

\* C28 witness: resolveElement of an enabled planner whose count had reached a
\* positive limit: the plan request inside it is rejected
C28_Witness ==
  /\ PlanRequested
  /\ pcall.op = "resolveElement"
  /\ pconfig.maxCallsPerRun = 2
  /\ pcall.countBefore = 2
  /\ accepted = 2
  /\ pcall.ended = "threw"
  /\ pcall.error = "limit"

(***************************************************************************)
(* Properties of a run                                                     *)
(***************************************************************************)
\* the positions of the history that belong to a phase
ExecutedIn(phase_) == {k \in 1..Len(executed) : executed[k].phase = phase_}

\* the test step executed at position k of the history failed and does not
\* continue on failure
FailedForGood(k) ==
  /\ executed[k].phase = "steps"
  /\ ~executed[k].success
  /\ ~suite.steps[executed[k].step].continueOnFailure

\* C27: in runCommand the test steps execute in suite order; once a test step
\* fails whose continueOnFailure is false no later test step is executed, yet
\* every teardown step is still executed afterwards, and the process exits
\* with a failure code whenever at least one test step failed.
C27_StepsStopTeardownRuns ==
  /\ \A k \in ExecutedIn("steps") :
       /\ executed[k].step = Cardinality({h \in ExecutedIn("steps") : h <= k})
       /\ \A h \in 1..(k - 1) : ~FailedForGood(h)
  /\ phase \in {"summary", "exited"} =>
       /\ \A t \in 1..Len(suite.teardown) :
            \E k \in ExecutedIn("teardown") :
              /\ executed[k].step = t
              /\ \A h \in ExecutedIn("steps") : h < k
       /\ \/ \E k \in ExecutedIn("steps") : FailedForGood(k)
          \/ Cardinality(ExecutedIn("steps")) = Len(suite.steps)
  /\ (phase = "exited" /\ \E k \in ExecutedIn("steps") : ~executed[k].success) =>
       exitCode = 1

\* C27 witness: the first of two test steps failed for good, the second was
\* not executed, both teardown steps were, and the run exited with code 1
C27_Witness ==
  /\ phase = "exited"
  /\ Len(suite.steps) = 2
  /\ Len(suite.teardown) = 2
  /\ ExecutedIn("steps") # {}
  /\ \A k \in ExecutedIn("steps") : executed[k].step = 1 /\ FailedForGood(k)
  /\ Cardinality(ExecutedIn("teardown")) = 2
  /\ exitCode = 1

\* the steps of the history in which resolveElement healed the target and
\* which passed
HealedSteps ==
  {k \in 1..Len(executed) : executed[k].success /\ executed[k].event # <<>>}

\* C24: every test step records its healing events: whenever executeStep heals
\* an action's target, the trajectory entry logged for that step contains the
\* HealingEvent, so the run summary's totalHealingEvents counts it.
C24_HealingEventsLogged ==
  /\ \A k \in HealedSteps :
       /\ executed[k].logged # <<>>
       /\ \E j \in 1..Len(entries) :
            /\ entries[j] = executed[k].logged[1]
            /\ \E h \in 1..Len(entries[j].healingEvents) :
                 entries[j].healingEvents[h] = executed[k].event[1]
  /\ phase = "exited" => summary.totalHealingEvents >= Cardinality(HealedSteps)

\* C23: no call of resolveElement, findElement, createSignature or detectDrift
\* changes a UIMap or a signature it is given: after any sequence of such
\* calls every UIMap the caller holds has the element list, content and order,
\* it was created with, and every signature is as createSignature returned it
C23_ArgumentsUnchanged ==
  \A r \in 1..Len(objects) : objects[r].value = created[r]

\* a findElement call whose sort put the candidates in another order than the
\* map's, on a map and a signature the caller still holds
C23_Witness ==
  /\ ocall.op = "findElement"
  /\ ocall.result.success
  /\ Len(ocall.result.candidates) > 1
  /\ ocall.result.candidates #
       scoredCandidates(created[ocall.signature], created[ocall.uiMap], 1)
  /\ objects[ocall.uiMap].value = created[ocall.uiMap]

=============================================================================
